---------------------------- MODULE Spec2Model ----------------------------
(***************************************************************************)
(* A model of the tachyon-rs core: the route matcher (utils.rs), the       *)
(* sharded hot cache (cache.rs) and the registry / snapshot / dispatcher   *)
(* of tachyon.rs.                                                          *)
(*                                                                         *)
(* Strings are sequences of bytes (naturals 0..255).  A u64 is a tuple of  *)
(* eight bytes, least significant first, so that the FNV-1a arithmetic     *)
(* keeps its 64-bit width.                                                 *)
(***************************************************************************)
EXTENDS Integers, Sequences, FiniteSets, TLC

None == "None"

(***************************************************************************)
(* Bytes and 64-bit words                                                  *)
(***************************************************************************)
COLON == 58
SLASH == 47

RECURSIVE XorBits(_, _, _)
XorBits(a, b, n) ==
    IF n = 0 THEN 0
    ELSE (((a % 2) + (b % 2)) % 2) + 2 * XorBits(a \div 2, b \div 2, n - 1)

\* hash ^= byte as u64 : only the low byte of the word changes
XorByte(h, byte) == [h EXCEPT ![1] = XorBits(h[1], byte, 8)]

\* FNV offset basis 0xcbf29ce484222325, least significant byte first
FNV_OFFSET == <<37, 35, 34, 132, 228, 156, 242, 203>>

\* the low 16 bits (0x01b3) of the FNV prime 0x100000001b3 = 2^40 + 0x1b3
FNV_PRIME_LOW == 435

\* hash.wrapping_mul(0x100000001b3): h * 0x1b3 + (h << 40), modulo 2^64
RECURSIVE MulLimbs(_, _, _)
MulLimbs(h, i, carry) ==
    IF i > 8 THEN <<>>
    ELSE LET t == (h[i] * FNV_PRIME_LOW) + (IF i >= 6 THEN h[i - 5] ELSE 0) + carry
         IN  <<t % 256>> \o MulLimbs(h, i + 1, t \div 256)

WrappingMulPrime(h) == MulLimbs(h, 1, 0)

RECURSIVE HashFrom(_, _, _)
HashFrom(h, key, i) ==
    IF i > Len(key) THEN h
    ELSE HashFrom(WrappingMulPrime(XorByte(h, key[i])), key, i + 1)

\* fast_hash / HotCache::hash : FNV-1a over the key's bytes
fast_hash(key) == HashFrom(FNV_OFFSET, key, 1)

(***************************************************************************)
(* utils.rs : route_matches                                                *)
(***************************************************************************)
\* the length difference above which route_matches gives up
LEN_SLACK == 50

AbsDiff(a, b) == IF a >= b THEN a - b ELSE b - a

\* bytes.iter().position(|&b| b == b':') ; 0 stands for Option::None
RECURSIVE PositionFrom(_, _, _)
PositionFrom(s, byte, i) ==
    IF i > Len(s) THEN 0
    ELSE IF s[i] = byte THEN i
    ELSE PositionFrom(s, byte, i + 1)

Position(s, byte) == PositionFrom(s, byte, 1)

Contains(s, byte) == \E i \in 1..Len(s) : s[i] = byte

\* slice.split(|&b| b == b'/') : the segments between separators, in order;
\* a slice without separator (an empty one too) yields one segment
Split(s, sep) ==
    LET seps   == {i \in 1..Len(s) : s[i] = sep}
        \* the position of the j-th separator; 0 and Len(s) + 1 bracket the slice
        at(j)  == IF j = 0 THEN 0
                  ELSE IF j > Cardinality(seps) THEN Len(s) + 1
                  ELSE CHOOSE i \in seps : Cardinality({k \in seps : k < i}) = j - 1
    IN  [j \in 1..(Cardinality(seps) + 1) |-> SubSeq(s, at(j - 1) + 1, at(j) - 1)]

\* a parameter segment that lets every actual segment through, the empty one too
ParamAcceptsEmpty(actual_seg) == TRUE

\* "Parameters can't be empty" : !actual_seg.is_empty()
ParamAccepts(actual_seg) == actual_seg # <<>>

\* a loop that accepts as soon as the pattern is exhausted
RECURSIVE SegmentsMatchPrefix(_, _, _)
SegmentsMatchPrefix(p, a, i) ==
    IF i > Len(p) THEN TRUE
    ELSE IF i > Len(a) THEN FALSE
    ELSE IF p[i] # <<>> /\ p[i][1] = COLON
         THEN IF ~ParamAccepts(a[i]) THEN FALSE ELSE SegmentsMatchPrefix(p, a, i + 1)
    ELSE IF p[i] # a[i] THEN FALSE
    ELSE SegmentsMatchPrefix(p, a, i + 1)

\* the loop over (pattern_iter.next(), actual_iter.next())
RECURSIVE SegmentsMatch(_, _, _)
SegmentsMatch(p, a, i) ==
    IF i > Len(p) /\ i > Len(a) THEN TRUE
    ELSE IF i > Len(p) \/ i > Len(a) THEN FALSE
    ELSE IF p[i] # <<>> /\ p[i][1] = COLON
         THEN IF ~ParamAccepts(a[i]) THEN FALSE ELSE SegmentsMatch(p, a, i + 1)
    ELSE IF p[i] # a[i] THEN FALSE
    ELSE SegmentsMatch(p, a, i + 1)

route_matches(route_pattern, actual_route) ==
    LET pattern_colon == Position(route_pattern, COLON)
        actual_colon  == Position(actual_route, COLON)
        pattern_path  == SubSeq(route_pattern, pattern_colon + 1, Len(route_pattern))
        actual_path   == SubSeq(actual_route, actual_colon + 1, Len(actual_route))
    IN  IF AbsDiff(Len(route_pattern), Len(actual_route)) > LEN_SLACK THEN FALSE
        ELSE IF pattern_colon = 0 THEN FALSE
        ELSE IF actual_colon = 0 THEN FALSE
        ELSE IF pattern_colon # actual_colon
                \/ SubSeq(route_pattern, 1, pattern_colon - 1)
                     # SubSeq(actual_route, 1, actual_colon - 1) THEN FALSE
        ELSE IF pattern_path = actual_path THEN TRUE
        ELSE IF ~Contains(pattern_path, COLON) THEN FALSE
        ELSE SegmentsMatch(Split(pattern_path, SLASH), Split(actual_path, SLASH), 1)

(***************************************************************************)
(* State                                                                   *)
(***************************************************************************)
VARIABLES
    routes,           \* Tachyon.routes : route key -> handler (the registry)
    routes_snapshot,  \* Tachyon.routes_snapshot : the published map hash -> handler
    hot_slot,         \* CacheShard.hot_slot, per shard : <<>> or <<(hash, entry)>>
    entries,          \* CacheShard.entries, per shard : hash -> entry
    lock,             \* the writer holding CacheShard.entries' RwLock, per shard
    hits,             \* HotCache.hits
    misses,           \* HotCache.misses
    pc,               \* where each thread / task stands
    loc,              \* the locals of the call each thread / task is in
    obs,              \* per request task: what the request saw and produced
    published,        \* (route key, handler) of every completed register_route
    registered,       \* (route key, handler) of every registry insert
    fresh,            \* per shard: the hash of the last completed set, until the next set begins
    nreq,             \* requests started
    nreg,             \* registrations started
    nops,             \* cache calls started
    pat,              \* route_matches: the pattern key
    cand,             \* route_matches: the candidate key
    res,              \* route_matches: <<>> until called, then <<result>>
    callbacks,        \* binding CallbackStore.snapshot : route hash -> callback
    write_lock,       \* binding CallbackStore.write_lock : its holder, or None
    nloc,             \* binding register_route : the locals of each call
    napi_out,         \* binding register_route : what each call returned
    chans,            \* binding: the bounded(1) channel of each invocation
    jsq,              \* binding: the invocations whose JS call is still pending
    cur,              \* binding: the locals of each task's current (or last) invocation
    outcome,          \* binding: <<ResponseData>> invoke_callback_fast returned
    ninv,             \* binding: invocations started so far
    listen_pc,        \* listen : where the call stands
    listen_out,       \* listen : <<>> while running, <<"Err", step>> once returned
    conns,            \* listen : the spawned connection tasks, id -> state
    naccept           \* listen : accept calls made so far

vars == <<routes, routes_snapshot, hot_slot, entries, lock, hits, misses, pc, loc,
          obs, published, registered, fresh, nreq, nreg, nops, pat, cand, res,
          callbacks, write_lock, nloc, napi_out, chans, jsq, cur, outcome, ninv,
          listen_pc, listen_out, conns, naccept>>

cacheVars == <<hot_slot, entries, lock, hits, misses, fresh>>
matchVars == <<pat, cand, res>>
storeVars == <<callbacks, write_lock, nloc, napi_out>>
invokeVars == <<chans, jsq, cur, outcome, ninv>>
bindingVars == <<storeVars, invokeVars>>
listenVars == <<listen_pc, listen_out, conns, naccept>>

(***************************************************************************)
(* cache.rs : the sharded hot cache                                        *)
(***************************************************************************)
\* The source has 32 shards (2^5).  The shard count only decides which keys
\* share a shard; the model keeps it a power of two and explores 2^ShardBits
\* shards.
ShardBits == 1
NUM_SHARDS == 2 ^ ShardBits
SHARD_MASK == NUM_SHARDS - 1

\* Capacity of a shard map.  The source sets 128; the model keeps the
\* eviction logic and checks it with small capacities.
MAX_ENTRIES_PER_SHARD == 2

Shards == 0..(NUM_SHARDS - 1)

RECURSIVE AndBits(_, _, _)
AndBits(a, b, n) ==
    IF n = 0 THEN 0
    ELSE ((a % 2) * (b % 2)) + 2 * AndBits(a \div 2, b \div 2, n - 1)

\* (hash as usize) & SHARD_MASK : the mask fits in the low byte
shard_index(hash) == AndBits(hash[1], SHARD_MASK, 8)

\* CacheEntry::new : the access count starts at 1
CacheEntry(handler) == [handler |-> handler, access_count |-> 1]

\* CacheEntry::touch
touch(entry) == [entry EXCEPT !.access_count = @ + 1]

EmptyMap == <<>>

\* a removal that leaves the entry in place
MapRemoveNothing(m, k) == m

MapRemove(m, k) == [x \in (DOMAIN m) \ {k} |-> m[x]]

MapInsert(m, k, v) == [x \in (DOMAIN m) \cup {k} |-> IF x = k THEN v ELSE m[x]]

\* an eviction that ignores the access counts
AnyVictims(m) == DOMAIN m

\* evict_lfu : the keys min_by_key may return (iteration order is arbitrary,
\* so any entry with the lowest access count)
LfuVictims(m) ==
    {k \in DOMAIN m : \A j \in DOMAIN m : m[k].access_count <= m[j].access_count}

\* a dispatch that goes on to the registry although the hot cache answered
AfterGetFallThrough(op, result) ==
    CASE op = "dispatch"      -> "find_exact"
      [] op = "get_or_insert" -> IF result # None THEN "idle" ELSE "factory"
      [] OTHER                -> "idle"

\* where a call continues once HotCache::get has returned `result`
AfterGet(op, result) ==
    CASE op = "dispatch"      -> IF result # None THEN "execute" ELSE "find_exact"
      [] op = "get_or_insert" -> IF result # None THEN "idle" ELSE "factory"
      [] OTHER                -> "idle"

\* where a call continues once HotCache::set has returned
AfterSet(op) == IF op = "dispatch" THEN "execute" ELSE "idle"

\* the request's ghost record once the hot cache has answered
ObsAfterGet(p, result) ==
    IF loc[p].op = "dispatch"
    THEN [obs EXCEPT ![p].trace = Append(@, <<"hot_cache", result>>)]
    ELSE obs

\* a fast path that waits for the shard lock before it reads the hot slot
GetHotLocked(p) ==
    /\ pc[p] = "get_hot"
    /\ LET hash == loc[p].route_hash
           s    == shard_index(hash)
           slot == hot_slot[s]
       IN  /\ lock[s] = None
           /\ IF slot # <<>> /\ slot[1].hash = hash
              THEN /\ hot_slot' = [hot_slot EXCEPT ![s] =
                                     <<[hash |-> hash, entry |-> touch(slot[1].entry)]>>]
                   /\ hits' = hits + 1
                   /\ loc' = [loc EXCEPT ![p].handler = slot[1].entry.handler]
                   /\ pc' = [pc EXCEPT ![p] = AfterGet(loc[p].op, slot[1].entry.handler)]
                   /\ obs' = ObsAfterGet(p, slot[1].entry.handler)
              ELSE /\ pc' = [pc EXCEPT ![p] = "get_map"]
                   /\ UNCHANGED <<hot_slot, hits, loc, obs>>
    /\ UNCHANGED <<routes, routes_snapshot, entries, lock, misses, published,
                   registered, fresh, nreq, nreg, nops, matchVars, listenVars,
                   bindingVars>>

\* CacheShard::get, fast path: the hot slot, without any lock
GetHot(p) ==
    /\ pc[p] = "get_hot"
    /\ LET hash == loc[p].route_hash
           s    == shard_index(hash)
           slot == hot_slot[s]
       IN  IF slot # <<>> /\ slot[1].hash = hash
           THEN /\ hot_slot' = [hot_slot EXCEPT ![s] =
                                  <<[hash |-> hash, entry |-> touch(slot[1].entry)]>>]
                /\ hits' = hits + 1
                /\ loc' = [loc EXCEPT ![p].handler = slot[1].entry.handler]
                /\ pc' = [pc EXCEPT ![p] = AfterGet(loc[p].op, slot[1].entry.handler)]
                /\ obs' = ObsAfterGet(p, slot[1].entry.handler)
           ELSE /\ pc' = [pc EXCEPT ![p] = "get_map"]
                /\ UNCHANGED <<hot_slot, hits, loc, obs>>
    /\ UNCHANGED <<routes, routes_snapshot, entries, lock, misses, published,
                   registered, fresh, nreq, nreg, nops, matchVars, listenVars,
                   bindingVars>>

\* a slow path that promotes the entry it found into the hot slot
GetMapPromote(p) ==
    /\ pc[p] = "get_map"
    /\ LET hash == loc[p].route_hash
           s    == shard_index(hash)
       IN  /\ lock[s] = None
           /\ IF hash \in DOMAIN entries[s]
              THEN /\ entries' = [entries EXCEPT ![s][hash] = touch(@)]
                   /\ hot_slot' = [hot_slot EXCEPT ![s] =
                                     <<[hash |-> hash, entry |-> touch(entries[s][hash])]>>]
                   /\ hits' = hits + 1
                   /\ loc' = [loc EXCEPT ![p].handler = entries[s][hash].handler]
                   /\ pc' = [pc EXCEPT ![p] = AfterGet(loc[p].op, entries[s][hash].handler)]
                   /\ obs' = ObsAfterGet(p, entries[s][hash].handler)
                   /\ UNCHANGED misses
              ELSE /\ misses' = misses + 1
                   /\ loc' = [loc EXCEPT ![p].handler = None]
                   /\ pc' = [pc EXCEPT ![p] = AfterGet(loc[p].op, None)]
                   /\ obs' = ObsAfterGet(p, None)
                   /\ UNCHANGED <<entries, hits, hot_slot>>
    /\ UNCHANGED <<routes, routes_snapshot, lock, published, registered,
                   fresh, nreq, nreg, nops, matchVars, listenVars,
                   bindingVars>>

\* CacheShard::get, slow path: the map under the read lock; then HotCache::get
\* counts the hit or the miss
GetMap(p) ==
    /\ pc[p] = "get_map"
    /\ LET hash == loc[p].route_hash
           s    == shard_index(hash)
       IN  /\ lock[s] = None
           /\ IF hash \in DOMAIN entries[s]
              THEN /\ entries' = [entries EXCEPT ![s][hash] = touch(@)]
                   /\ hits' = hits + 1
                   /\ loc' = [loc EXCEPT ![p].handler = entries[s][hash].handler]
                   /\ pc' = [pc EXCEPT ![p] = AfterGet(loc[p].op, entries[s][hash].handler)]
                   /\ obs' = ObsAfterGet(p, entries[s][hash].handler)
                   /\ UNCHANGED misses
              ELSE /\ misses' = misses + 1
                   /\ loc' = [loc EXCEPT ![p].handler = None]
                   /\ pc' = [pc EXCEPT ![p] = AfterGet(loc[p].op, None)]
                   /\ obs' = ObsAfterGet(p, None)
                   /\ UNCHANGED <<entries, hits>>
    /\ UNCHANGED <<routes, routes_snapshot, hot_slot, lock, published, registered,
                   fresh, nreq, nreg, nops, matchVars, listenVars,
                   bindingVars>>

\* CacheShard::insert : publish the hot slot (lock-free)
SetHot(p) ==
    /\ pc[p] = "set_hot"
    /\ LET hash == loc[p].route_hash
           s    == shard_index(hash)
       IN  /\ hot_slot' = [hot_slot EXCEPT ![s] =
                             <<[hash |-> hash, entry |-> CacheEntry(loc[p].handler)]>>]
           /\ fresh' = [fresh EXCEPT ![s] = <<>>]
    /\ pc' = [pc EXCEPT ![p] = "set_lock"]
    /\ UNCHANGED <<routes, routes_snapshot, entries, lock, hits, misses, loc, obs,
                   published, registered, nreq, nreg, nops, matchVars, listenVars,
                   bindingVars>>

\* CacheShard::insert : self.entries.write()
SetLock(p) ==
    /\ pc[p] = "set_lock"
    /\ LET s == shard_index(loc[p].route_hash)
       IN  /\ lock[s] = None
           /\ lock' = [lock EXCEPT ![s] = p]
    /\ pc' = [pc EXCEPT ![p] = "set_insert"]
    /\ UNCHANGED <<routes, routes_snapshot, hot_slot, entries, hits, misses, loc, obs,
                   published, registered, fresh, nreq, nreg, nops, matchVars, listenVars,
                   bindingVars>>

\* CacheShard::insert : evict when full, insert, drop the write guard
SetInsert(p) ==
    /\ pc[p] = "set_insert"
    /\ LET hash == loc[p].route_hash
           s    == shard_index(hash)
           m    == entries[s]
       IN  /\ lock[s] = p
           /\ IF Cardinality(DOMAIN m) >= MAX_ENTRIES_PER_SHARD /\ DOMAIN m # {}
              THEN \E victim \in LfuVictims(m) :
                     entries' = [entries EXCEPT ![s] =
                                   MapInsert(MapRemove(m, victim), hash,
                                             CacheEntry(loc[p].handler))]
              ELSE entries' = [entries EXCEPT ![s] =
                                 MapInsert(m, hash, CacheEntry(loc[p].handler))]
           /\ lock' = [lock EXCEPT ![s] = None]
           /\ fresh' = [fresh EXCEPT ![s] = hash]
    /\ pc' = [pc EXCEPT ![p] = AfterSet(loc[p].op)]
    /\ obs' = IF loc[p].op = "dispatch" THEN [obs EXCEPT ![p].did_set = TRUE] ELSE obs
    /\ UNCHANGED <<routes, routes_snapshot, hot_slot, hits, misses, loc,
                   published, registered, nreq, nreg, nops, matchVars, listenVars,
                   bindingVars>>

\* HotCache::get_or_insert : the factory f() after a miss; f()? returns None
\* when the factory yields nothing
Factory(p, result) ==
    /\ pc[p] = "factory"
    /\ loc' = [loc EXCEPT ![p].handler = result]
    /\ pc' = [pc EXCEPT ![p] = IF result = None THEN "idle" ELSE "set_hot"]
    /\ UNCHANGED <<routes, routes_snapshot, cacheVars, obs, published, registered,
                   nreq, nreg, nops, matchVars, listenVars,
                   bindingVars>>

\* HotCache::clear, per shard : shard.hot_slot.store(None)
ClearHot(p) ==
    /\ pc[p] = "clear_hot"
    /\ hot_slot' = [hot_slot EXCEPT ![loc[p].idx] = <<>>]
    /\ pc' = [pc EXCEPT ![p] = "clear_lock"]
    /\ UNCHANGED <<routes, routes_snapshot, entries, lock, hits, misses, loc, obs,
                   published, registered, fresh, nreq, nreg, nops, matchVars, listenVars,
                   bindingVars>>

\* HotCache::clear, per shard : shard.entries.write()
ClearLock(p) ==
    /\ pc[p] = "clear_lock"
    /\ lock[loc[p].idx] = None
    /\ lock' = [lock EXCEPT ![loc[p].idx] = p]
    /\ pc' = [pc EXCEPT ![p] = "clear_entries"]
    /\ UNCHANGED <<routes, routes_snapshot, hot_slot, entries, hits, misses, loc, obs,
                   published, registered, fresh, nreq, nreg, nops, matchVars, listenVars,
                   bindingVars>>

\* a clear that keeps every shard's write guard until the last shard is done
ClearEntriesHoldGuards(p) ==
    /\ pc[p] = "clear_entries"
    /\ lock[loc[p].idx] = p
    /\ entries' = [entries EXCEPT ![loc[p].idx] = EmptyMap]
    /\ fresh' = [fresh EXCEPT ![loc[p].idx] = <<>>]
    /\ IF loc[p].idx + 1 < NUM_SHARDS
       THEN /\ loc' = [loc EXCEPT ![p].idx = @ + 1]
            /\ pc' = [pc EXCEPT ![p] = "clear_hot"]
            /\ UNCHANGED lock
       ELSE /\ loc' = [loc EXCEPT ![p].idx = 0]
            /\ pc' = [pc EXCEPT ![p] = "idle"]
            /\ lock' = [s \in Shards |-> IF lock[s] = p THEN None ELSE lock[s]]
    /\ UNCHANGED <<routes, routes_snapshot, hot_slot, hits, misses, obs,
                   published, registered, nreq, nreg, nops, matchVars, listenVars,
                   bindingVars>>

\* HotCache::clear, per shard : entries.clear(), drop the guard, next shard
ClearEntries(p) ==
    /\ pc[p] = "clear_entries"
    /\ lock[loc[p].idx] = p
    /\ entries' = [entries EXCEPT ![loc[p].idx] = EmptyMap]
    /\ lock' = [lock EXCEPT ![loc[p].idx] = None]
    /\ fresh' = [fresh EXCEPT ![loc[p].idx] = <<>>]
    /\ IF loc[p].idx + 1 < NUM_SHARDS
       THEN /\ loc' = [loc EXCEPT ![p].idx = @ + 1]
            /\ pc' = [pc EXCEPT ![p] = "clear_hot"]
       ELSE /\ loc' = [loc EXCEPT ![p].idx = 0]
            /\ pc' = [pc EXCEPT ![p] = "idle"]
    /\ UNCHANGED <<routes, routes_snapshot, hot_slot, hits, misses, obs,
                   published, registered, nreq, nreg, nops, matchVars, listenVars,
                   bindingVars>>

(***************************************************************************)
(* methods.rs, options.rs : methods, handlers, responses                   *)
(***************************************************************************)
Methods == {"GET", "POST", "PUT", "DELETE", "PATCH"}

\* Method::id
MethodId(method) ==
    CASE method = "GET"    -> 0
      [] method = "POST"   -> 1
      [] method = "PUT"    -> 2
      [] method = "DELETE" -> 3
      [] method = "PATCH"  -> 4

\* itoa::Buffer::format of a method id (one ASCII digit)
Itoa(id) == <<48 + id>>

\* the route key "<method-id>:<path>"
RouteKey(method, path) == Itoa(MethodId(method)) \o <<COLON>> \o path

\* The registered callbacks.  A callback is opaque to the core: each one is
\* modelled by the ResponseData it returns.
Handlers == {"H1", "H2"}

HandlerResult(h) ==
    IF h = "H1" THEN [status_code |-> 200, data |-> <<72, 49>>]
    ELSE [status_code |-> 201, data |-> <<72, 50>>]

\* b"{\"error\":\"Not Found\"}"
NOTFOUND_BYTES ==
    <<123, 34, 101, 114, 114, 111, 114, 34, 58, 34, 78, 111, 116, 32, 70, 111,
      117, 110, 100, 34, 125>>

STATUS_OK == 200
STATUS_NOT_FOUND == 404

\* build_response_fast : status (StatusCode::from_u16 accepts 100..999,
\* anything else falls back to 200), content-type, content-length, body
build_response_fast(result) ==
    [status |-> CASE result.status_code = 200 -> STATUS_OK
                  [] result.status_code = 404 -> STATUS_NOT_FOUND
                  [] OTHER -> IF result.status_code >= 100 /\ result.status_code <= 999
                              THEN result.status_code ELSE STATUS_OK,
     content_type |-> "application/json",
     content_length |-> Len(result.data),
     body |-> result.data]

\* a miss answered with an empty 200
NotFoundAsOk ==
    [status |-> STATUS_OK,
     content_type |-> "application/json",
     content_length |-> 0,
     body |-> <<>>]

\* not_found_response : the pre-built 404, content-length "21"
not_found_response ==
    [status |-> STATUS_NOT_FOUND,
     content_type |-> "application/json",
     content_length |-> 21,
     body |-> NOTFOUND_BYTES]

NoResponse == [status |-> 0, content_type |-> "", content_length |-> 0, body |-> <<>>]

(***************************************************************************)
(* tachyon.rs : registration                                               *)
(***************************************************************************)
Tasks == {"t1", "t2"}
RegThreads == {"r1", "r2"}
CacheThreads == {"c1", "c2"}
Procs == Tasks \cup RegThreads \cup CacheThreads

\* total numbers of requests, registrations and direct cache calls explored
MaxRequests == 2
MaxRegs == 3
\* requests explored once the routes are in place
MaxServeRequests == 3
MaxOps == 3
\* direct cache calls explored by the eviction specification
MaxEvictOps == 4

IdleLoc ==
    [op |-> "none", route_key |-> <<>>, route_hash |-> <<>>, handler |-> None,
     idx |-> 0, new_snapshot |-> EmptyMap]

IdleObs ==
    [method |-> "GET", content_type |-> <<>>, body |-> <<>>,
     route_key |-> <<>>, trace |-> <<>>, invoked |-> None, calls |-> 0,
     opts |-> [body |-> <<>>, params |-> None], response |-> NoResponse,
     did_set |-> FALSE, startPub |-> {}, loadPub |-> {}]

\* the binding after Tachyon::new : no callback stored, nothing invoked
IdleNapi ==
    [method |-> <<>>, route_key |-> <<>>, route_hash |-> <<>>, path |-> <<>>,
     callback |-> None, new_map |-> EmptyMap]

IdleInv == [id |-> 0, route_hash |-> <<>>, entry |-> None, js_data |-> [body |-> <<>>]]

\* listen has not been called
ListenInit ==
    /\ listen_pc = "new"
    /\ listen_out = <<>>
    /\ conns = EmptyMap
    /\ naccept = 0

BindingInit ==
    /\ ListenInit
    /\ callbacks = EmptyMap
    /\ write_lock = None
    /\ nloc = [t \in RegThreads |-> IdleNapi]
    /\ napi_out = [t \in RegThreads |-> <<>>]
    /\ chans = EmptyMap
    /\ jsq = {}
    /\ cur = [r \in Tasks |-> IdleInv]
    /\ outcome = [r \in Tasks |-> <<>>]
    /\ ninv = 0

\* register_route, first half: build the key, insert into the registry
\* (DashMap::insert overwrites an existing key)
RegInsert(t, method, path, h) ==
    /\ pc[t] = "idle"
    /\ nreg < MaxRegs
    /\ nreg' = nreg + 1
    /\ LET route_key == RouteKey(method, path)
       IN  /\ routes' = MapInsert(routes, route_key,
                                  [method |-> MethodId(method), handler |-> h])
           /\ registered' = registered \cup {<<route_key, h>>}
           /\ loc' = [loc EXCEPT ![t] =
                        [IdleLoc EXCEPT !.op = "register", !.route_key = route_key,
                                        !.handler = h]]
    /\ pc' = [pc EXCEPT ![t] = "reg_load"]
    /\ UNCHANGED <<routes_snapshot, cacheVars, obs, published, nreq, nops, matchVars, listenVars,
                   bindingVars>>

\* register_route : hash the key, clone the current snapshot, insert
RegLoad(t) ==
    /\ pc[t] = "reg_load"
    /\ LET hash == fast_hash(loc[t].route_key)
       IN  loc' = [loc EXCEPT ![t].route_hash = hash,
                              ![t].new_snapshot =
                                  MapInsert(routes_snapshot, hash, loc[t].handler)]
    /\ pc' = [pc EXCEPT ![t] = "reg_store"]
    /\ UNCHANGED <<routes, routes_snapshot, cacheVars, obs, published, registered,
                   nreq, nreg, nops, matchVars, listenVars,
                   bindingVars>>

\* a publish that also empties the hot cache
RegStoreInvalidate(t) ==
    /\ pc[t] = "reg_store"
    /\ routes_snapshot' = loc[t].new_snapshot
    /\ published' = published \cup {<<loc[t].route_key, loc[t].handler>>}
    /\ hot_slot' = [s \in Shards |-> <<>>]
    /\ entries' = [s \in Shards |-> EmptyMap]
    /\ loc' = [loc EXCEPT ![t] = IdleLoc]
    /\ pc' = [pc EXCEPT ![t] = "idle"]
    /\ UNCHANGED <<routes, lock, hits, misses, fresh, obs, registered, nreq, nreg,
                   nops, matchVars, listenVars,
                   bindingVars>>

\* register_route : routes_snapshot.store(Arc::new(new_snapshot))
RegStore(t) ==
    /\ pc[t] = "reg_store"
    /\ routes_snapshot' = loc[t].new_snapshot
    /\ published' = published \cup {<<loc[t].route_key, loc[t].handler>>}
    /\ loc' = [loc EXCEPT ![t] = IdleLoc]
    /\ pc' = [pc EXCEPT ![t] = "idle"]
    /\ UNCHANGED <<routes, cacheVars, obs, registered, nreq, nreg, nops, matchVars, listenVars,
                   bindingVars>>

(***************************************************************************)
(* napi/src/lib.rs : CallbackStore, Tachyon::register_route                *)
(***************************************************************************)
\* String::to_uppercase on ASCII bytes
ToUpperByte(b) == IF b >= 97 /\ b <= 122 THEN b - 32 ELSE b

ToUpper(m) == [i \in 1..Len(m) |-> ToUpperByte(m[i])]

\* the arms of `match method_upper.as_str()`; "_" is the default arm
MethodArm(upper) ==
    CASE upper = <<71, 69, 84>>             -> "GET"
      [] upper = <<80, 79, 83, 84>>         -> "POST"
      [] upper = <<80, 85, 84>>             -> "PUT"
      [] upper = <<68, 69, 76, 69, 84, 69>> -> "DELETE"
      [] upper = <<80, 65, 84, 67, 72>>     -> "PATCH"
      [] OTHER                              -> "_"

\* b"Unsupported method: "
UNSUPPORTED_BYTES ==
    <<85, 110, 115, 117, 112, 112, 111, 114, 116, 101, 100, 32, 109, 101, 116,
      104, 111, 100, 58, 32>>

\* Err(Error::from_reason(format!("Unsupported method: {}", method)))
UnsupportedMethod(method) == <<"Err", UNSUPPORTED_BYTES \o method>>

\* the closure handed to the core: the core sees one opaque handler
Closure == "invoke_callback_fast"

\* the JS callbacks registered through the binding
Callbacks == {"J1", "J2"}

MaxNapiRegs == 3
MaxStoreGets == 2

\* register_route is entered: method_upper, route_key "<METHOD>:<path>",
\* route_hash
NapiRegister(t, method, path, cb) ==
    /\ pc[t] = "idle"
    /\ nreg < MaxNapiRegs
    /\ nreg' = nreg + 1
    /\ LET route_key == ToUpper(method) \o <<COLON>> \o path
       IN  nloc' = [nloc EXCEPT ![t] =
                      [IdleNapi EXCEPT !.method = method, !.path = path,
                                       !.route_key = route_key,
                                       !.route_hash = fast_hash(route_key),
                                       !.callback = cb]]
    /\ napi_out' = [napi_out EXCEPT ![t] = <<>>]
    /\ pc' = [pc EXCEPT ![t] = "napi_lock"]
    /\ UNCHANGED <<routes, routes_snapshot, cacheVars, loc, obs, published, registered,
                   nreq, nops, matchVars, listenVars, callbacks, write_lock, invokeVars>>

\* an insert that goes on without taking the write lock
NapiNoLock(t) ==
    /\ pc[t] = "napi_lock"
    /\ pc' = [pc EXCEPT ![t] = "napi_clone"]
    /\ UNCHANGED <<routes, routes_snapshot, cacheVars, loc, obs, published, registered,
                   nreq, nreg, nops, matchVars, listenVars, storeVars, invokeVars>>

\* CallbackStore::insert : let _guard = self.write_lock.write()
NapiLock(t) ==
    /\ pc[t] = "napi_lock"
    /\ write_lock = None
    /\ write_lock' = t
    /\ pc' = [pc EXCEPT ![t] = "napi_clone"]
    /\ UNCHANGED <<routes, routes_snapshot, cacheVars, loc, obs, published, registered,
                   nreq, nreg, nops, matchVars, listenVars, callbacks, nloc, napi_out, invokeVars>>

\* CallbackStore::insert : clone the loaded snapshot and insert the entry
NapiClone(t) ==
    /\ pc[t] = "napi_clone"
    /\ nloc' = [nloc EXCEPT ![t].new_map =
                   MapInsert(callbacks, nloc[t].route_hash, nloc[t].callback)]
    /\ pc' = [pc EXCEPT ![t] = "napi_store"]
    /\ UNCHANGED <<routes, routes_snapshot, cacheVars, loc, obs, published, registered,
                   nreq, nreg, nops, matchVars, listenVars, callbacks, write_lock, napi_out,
                   invokeVars>>

\* CallbackStore::insert : snapshot.store, then the guard is dropped
NapiStore(t) ==
    /\ pc[t] = "napi_store"
    /\ callbacks' = nloc[t].new_map
    /\ write_lock' = None
    /\ pc' = [pc EXCEPT ![t] = "napi_match"]
    /\ UNCHANGED <<routes, routes_snapshot, cacheVars, loc, obs, published, registered,
                   nreq, nreg, nops, matchVars, listenVars, nloc, napi_out, invokeVars>>

\* a match whose default arm registers the route as GET
NapiMatchDefaultGet(t) ==
    /\ pc[t] = "napi_match"
    /\ LET arm == MethodArm(ToUpper(nloc[t].method))
           method == IF arm = "_" THEN "GET" ELSE arm
           route_key == RouteKey(method, nloc[t].path)
       IN  /\ routes' = MapInsert(routes, route_key,
                                  [method |-> MethodId(method), handler |-> Closure])
           /\ registered' = registered \cup {<<route_key, Closure>>}
           /\ loc' = [loc EXCEPT ![t] =
                        [IdleLoc EXCEPT !.op = "register", !.route_key = route_key,
                                        !.handler = Closure]]
           /\ napi_out' = [napi_out EXCEPT ![t] = <<"Ok">>]
           /\ pc' = [pc EXCEPT ![t] = "reg_load"]
    /\ nloc' = [nloc EXCEPT ![t] = IdleNapi]
    /\ UNCHANGED <<routes_snapshot, cacheVars, obs, published, nreq, nreg, nops,
                   matchVars, listenVars, callbacks, write_lock, invokeVars>>

\* register_route : the match on method_upper.  A supported method enters
\* the core's register_route (its registry insert is done here, RegLoad and
\* RegStore follow) and the call returns Ok(()); any other method returns
\* the error without calling the core.
NapiMatch(t) ==
    /\ pc[t] = "napi_match"
    /\ LET arm == MethodArm(ToUpper(nloc[t].method))
       IN  IF arm = "_"
           THEN /\ napi_out' = [napi_out EXCEPT ![t] = UnsupportedMethod(nloc[t].method)]
                /\ pc' = [pc EXCEPT ![t] = "idle"]
                /\ UNCHANGED <<routes, registered, loc>>
           ELSE LET route_key == RouteKey(arm, nloc[t].path)
                IN  /\ routes' = MapInsert(routes, route_key,
                                           [method |-> MethodId(arm), handler |-> Closure])
                    /\ registered' = registered \cup {<<route_key, Closure>>}
                    /\ loc' = [loc EXCEPT ![t] =
                                 [IdleLoc EXCEPT !.op = "register",
                                                 !.route_key = route_key,
                                                 !.handler = Closure]]
                    /\ napi_out' = [napi_out EXCEPT ![t] = <<"Ok">>]
                    /\ pc' = [pc EXCEPT ![t] = "reg_load"]
    /\ nloc' = [nloc EXCEPT ![t] = IdleNapi]
    /\ UNCHANGED <<routes_snapshot, cacheVars, obs, published, nreq, nreg, nops,
                   matchVars, listenVars, callbacks, write_lock, invokeVars>>

(***************************************************************************)
(* napi/src/lib.rs : invoke_callback_fast                                  *)
(***************************************************************************)
\* b"{\"error\":\"Callback failed\"}"
ERROR_CALLBACK_FAILED ==
    <<123, 34, 101, 114, 114, 111, 114, 34, 58, 34, 67, 97, 108, 108, 98, 97, 99,
      107, 32, 102, 97, 105, 108, 101, 100, 34, 125>>

\* b"{\"error\":\"Route not found\"}"
ERROR_ROUTE_NOT_FOUND ==
    <<123, 34, 101, 114, 114, 111, 114, 34, 58, 34, 82, 111, 117, 116, 101, 32,
      110, 111, 116, 32, 102, 111, 117, 110, 100, 34, 125>>

\* b"{\"error\":\"Callback timeout\"}"
ERROR_TIMEOUT ==
    <<123, 34, 101, 114, 114, 111, 114, 34, 58, 34, 67, 97, 108, 108, 98, 97, 99,
      107, 32, 116, 105, 109, 101, 111, 117, 116, 34, 125>>

STATUS_ROUTE_NOT_FOUND == 404
STATUS_TIMEOUT == 504
STATUS_CALLBACK_FAILED == 500

RECURSIVE fast_serialize(_)
RECURSIVE SerializeItems(_, _)

\* the elements of an array or the members of an object, comma separated
SerializeItems(items, isObj) ==
    IF items = <<>> THEN <<>>
    ELSE LET x == Head(items)
             one == IF isObj
                    THEN <<34>> \o x[1] \o <<34, 58>> \o fast_serialize(x[2])
                    ELSE fast_serialize(x)
         IN  IF Len(items) = 1 THEN one
             ELSE one \o <<44>> \o SerializeItems(Tail(items), isObj)

\* fast_serialize : the compact JSON text of a Value
fast_serialize(v) ==
    CASE v.t = "str" -> <<34>> \o v.text \o <<34>>
      [] v.t = "arr" -> <<91>> \o SerializeItems(v.items, FALSE) \o <<93>>
      [] v.t = "obj" -> <<123>> \o SerializeItems(v.items, TRUE) \o <<125>>
      [] OTHER       -> v.text

\* JsCallbackData : body is opts.body serialized, when present
JsData(opts) ==
    [body |-> IF opts.body = <<>> THEN <<>> ELSE <<fast_serialize(opts.body[1])>>]

\* What the JS callbacks return: each echoes the body text it was given
\* (empty when there is none) under its own status.
CallbackResult(cb, js_data) ==
    [status |-> IF cb = "J1" THEN 200 ELSE 201,
     data |-> IF js_data.body = <<>> THEN <<>> ELSE js_data.body[1]]

\* CallbackStore::get on its own : self.snapshot.load().get(&hash).cloned(),
\* no lock involved; the result is kept in the caller's locals
StoreGet(r, route_hash) ==
    /\ pc[r] = "idle"
    /\ ninv < MaxStoreGets
    /\ ninv' = ninv + 1
    /\ cur' = [cur EXCEPT ![r] =
                 [IdleInv EXCEPT !.id = ninv + 1, !.route_hash = route_hash,
                                 !.entry = IF route_hash \in DOMAIN callbacks
                                           THEN callbacks[route_hash] ELSE None]]
    /\ UNCHANGED <<routes, routes_snapshot, cacheVars, pc, loc, obs, published,
                   registered, nreq, nreg, nops, matchVars, listenVars, storeVars,
                   chans, jsq, outcome>>

\* bounded::<JsCallbackResult>(1) : the slot, whether tx and rx are alive,
\* and what tx.send returned
NewChannel == [value |-> <<>>, tx |-> TRUE, rx |-> TRUE, send |-> "none"]

MaxInvokes == 3

\* invoke_callback_fast up to the wait: look the entry up without a lock;
\* absent -> 404; present -> build js_data, create the channel, queue the
\* JS call with the closure that owns tx
Invoke(r, route_hash, opts) ==
    /\ pc[r] = "idle"
    /\ ninv < MaxInvokes
    /\ ninv' = ninv + 1
    /\ IF route_hash \notin DOMAIN callbacks
       THEN /\ cur' = [cur EXCEPT ![r] =
                         [IdleInv EXCEPT !.id = ninv + 1, !.route_hash = route_hash]]
            /\ outcome' = [outcome EXCEPT ![r] =
                             <<[data |-> ERROR_ROUTE_NOT_FOUND,
                                status_code |-> STATUS_ROUTE_NOT_FOUND]>>]
            /\ UNCHANGED <<chans, jsq, pc>>
       ELSE LET entry == callbacks[route_hash]
                id == ninv + 1
            IN  /\ cur' = [cur EXCEPT ![r] =
                             [id |-> id, route_hash |-> route_hash, entry |-> entry,
                              js_data |-> JsData(opts)]]
                /\ outcome' = [outcome EXCEPT ![r] = <<>>]
                /\ chans' = MapInsert(chans, id, NewChannel)
                /\ jsq' = jsq \cup {[id |-> id, callback |-> entry,
                                     js_data |-> JsData(opts)]}
                /\ pc' = [pc EXCEPT ![r] = "inv_wait"]
    /\ UNCHANGED <<routes, routes_snapshot, cacheVars, loc, obs, published, registered,
                   nreq, nreg, nops, matchVars, listenVars, storeVars>>

\* the JS thread runs a queued call and the callback returns a result: the
\* closure sends it on its own tx (the send fails and the result is dropped
\* when rx is gone), then tx is dropped with the closure
JsReturn(q) ==
    /\ q \in jsq
    /\ jsq' = jsq \ {q}
    /\ LET ch == chans[q.id]
           result == CallbackResult(q.callback, q.js_data)
       IN  chans' = [chans EXCEPT ![q.id] =
                       IF ch.rx
                       THEN [ch EXCEPT !.value = <<result>>, !.send = "ok", !.tx = FALSE]
                       ELSE [ch EXCEPT !.send = "err", !.tx = FALSE]]
    /\ UNCHANGED <<routes, routes_snapshot, cacheVars, pc, loc, obs, published,
                   registered, nreq, nreg, nops, matchVars, listenVars, storeVars, cur, outcome,
                   ninv>>

\* the callback throws (or the call is dropped): result is Err, nothing is
\* sent, tx is dropped with the closure
JsFail(q) ==
    /\ q \in jsq
    /\ jsq' = jsq \ {q}
    /\ chans' = [chans EXCEPT ![q.id].tx = FALSE]
    /\ UNCHANGED <<routes, routes_snapshot, cacheVars, pc, loc, obs, published,
                   registered, nreq, nreg, nops, matchVars, listenVars, storeVars, cur, outcome,
                   ninv>>

\* the wait ends with the ResponseData out; rx is dropped on return
InvReturn(r, out) ==
    /\ outcome' = [outcome EXCEPT ![r] = <<out>>]
    /\ chans' = [chans EXCEPT ![cur[r].id].rx = FALSE, ![cur[r].id].value = <<>>]
    /\ pc' = [pc EXCEPT ![r] = "idle"]
    /\ UNCHANGED <<routes, routes_snapshot, cacheVars, loc, obs, published, registered,
                   nreq, nreg, nops, matchVars, listenVars, storeVars, jsq, cur, ninv>>

\* a wait that takes a result from whichever channel holds one
RecvAnyChannel(r) ==
    /\ pc[r] = "inv_wait"
    /\ \E id \in DOMAIN chans :
          /\ chans[id].value # <<>>
          /\ InvReturn(r, [data |-> chans[id].value[1].data,
                           status_code |-> chans[id].value[1].status])

\* rx.recv_timeout : Ok(result)
Recv(r) ==
    /\ pc[r] = "inv_wait"
    /\ chans[cur[r].id].value # <<>>
    /\ InvReturn(r, [data |-> chans[cur[r].id].value[1].data,
                     status_code |-> chans[cur[r].id].value[1].status])

\* rx.recv_timeout : Err(Timeout), the 30 seconds passed with the channel
\* empty and tx alive
RecvTimeout(r) ==
    /\ pc[r] = "inv_wait"
    /\ chans[cur[r].id].value = <<>>
    /\ chans[cur[r].id].tx
    /\ InvReturn(r, [data |-> ERROR_TIMEOUT, status_code |-> STATUS_TIMEOUT])

\* rx.recv_timeout : Err(Disconnected), the channel is empty and tx is gone
RecvDisconnected(r) ==
    /\ pc[r] = "inv_wait"
    /\ chans[cur[r].id].value = <<>>
    /\ ~chans[cur[r].id].tx
    /\ InvReturn(r, [data |-> ERROR_CALLBACK_FAILED,
                     status_code |-> STATUS_CALLBACK_FAILED])

(***************************************************************************)
(* tachyon.rs : handle_request_fast                                        *)
(***************************************************************************)
\* Method::from(&hyper::Method) : the five supported methods convert, any
\* other method reaches panic!("Invalid method")
MethodFrom(method) == IF method \in Methods THEN method ELSE "panic"

\* the request arrives with its method, path, content-type header (<<>>
\* when absent, <<bytes>> when present) and body: method, route key, route hash.  When Method::from
\* panics the task unwinds and no response is produced.
Arrive(r, method, path, content_type, body, limit) ==
    /\ pc[r] = "idle"
    /\ nreq < limit
    /\ nreq' = nreq + 1
    /\ IF MethodFrom(method) = "panic"
       THEN /\ loc' = [loc EXCEPT ![r] = [IdleLoc EXCEPT !.op = "dispatch"]]
            /\ obs' = [obs EXCEPT ![r] =
                         [IdleObs EXCEPT !.method = method,
                                         !.content_type = content_type,
                                         !.body = body,
                                         !.startPub = published]]
            /\ pc' = [pc EXCEPT ![r] = "panicked"]
       ELSE LET route_key == RouteKey(MethodFrom(method), path)
            IN  /\ loc' = [loc EXCEPT ![r] =
                             [IdleLoc EXCEPT !.op = "dispatch", !.route_key = route_key,
                                             !.route_hash = fast_hash(route_key)]]
                /\ obs' = [obs EXCEPT ![r] =
                             [IdleObs EXCEPT !.method = method,
                                             !.content_type = content_type,
                                             !.body = body,
                                             !.route_key = route_key,
                                             !.startPub = published]]
                /\ pc' = [pc EXCEPT ![r] = "snapshot"]
    /\ UNCHANGED <<routes, routes_snapshot, cacheVars, published, registered,
                   nreg, nops, matchVars, listenVars,
                   bindingVars>>

\* a request without content-type header and with an empty body
ReqStart(r, method, path, limit) == Arrive(r, method, path, <<>>, <<>>, limit)

\* the panic ends the connection's task (tokio::spawn catches it); the
\* peer gets no response, and a later connection is served by a new task
Unwind(r) ==
    /\ pc[r] = "panicked"
    /\ pc' = [pc EXCEPT ![r] = "idle"]
    /\ loc' = [loc EXCEPT ![r] = IdleLoc]
    /\ obs' = [obs EXCEPT ![r] = IdleObs]
    /\ UNCHANGED <<routes, routes_snapshot, cacheVars, published, registered,
                   nreq, nreg, nops, matchVars, listenVars,
                   bindingVars>>

\* a request whose route key has the same 64-bit hash as the key `twin`.
\* fast_hash maps the unbounded set of keys into 2^64 values, so such keys
\* exist, but none is short enough to enumerate: the model names the
\* request by a path of its own and gives it the twin's hash; the steps
\* after the hash is computed are the ordinary ones.
ArriveColliding(r, method, path, twin, limit) ==
    /\ pc[r] = "idle"
    /\ nreq < limit
    /\ nreq' = nreq + 1
    /\ LET route_key == RouteKey(MethodFrom(method), path)
       IN  /\ loc' = [loc EXCEPT ![r] =
                        [IdleLoc EXCEPT !.op = "dispatch", !.route_key = route_key,
                                        !.route_hash = fast_hash(twin)]]
           /\ obs' = [obs EXCEPT ![r] =
                        [IdleObs EXCEPT !.method = method, !.route_key = route_key,
                                        !.startPub = published]]
           /\ pc' = [pc EXCEPT ![r] = "snapshot"]
    /\ UNCHANGED <<routes, routes_snapshot, cacheVars, published, registered,
                   nreg, nops, matchVars, listenVars, bindingVars>>

\* a snapshot lookup that would also compare the key behind the hash
ReqSnapshotKeyed(r) ==
    /\ pc[r] = "snapshot"
    /\ LET hash == loc[r].route_hash
           hit  == hash \in DOMAIN routes_snapshot /\ fast_hash(loc[r].route_key) = hash
           h    == IF hit THEN routes_snapshot[hash] ELSE None
       IN  /\ loc' = [loc EXCEPT ![r].handler = h]
           /\ obs' = [obs EXCEPT ![r].trace = Append(@, <<"snapshot", h>>),
                                 ![r].loadPub = published]
           /\ pc' = [pc EXCEPT ![r] = IF hit THEN "execute" ELSE "get_hot"]
    /\ UNCHANGED <<routes, routes_snapshot, cacheVars, published, registered,
                   nreq, nreg, nops, matchVars, listenVars, bindingVars>>

\* Layer 1: routes_snapshot.load() and the lookup in the loaded map
ReqSnapshot(r) ==
    /\ pc[r] = "snapshot"
    /\ LET hash == loc[r].route_hash
           hit  == hash \in DOMAIN routes_snapshot
           h    == IF hit THEN routes_snapshot[hash] ELSE None
       IN  /\ loc' = [loc EXCEPT ![r].handler = h]
           /\ obs' = [obs EXCEPT ![r].trace = Append(@, <<"snapshot", h>>),
                                 ![r].loadPub = published]
           /\ pc' = [pc EXCEPT ![r] = IF hit THEN "execute" ELSE "get_hot"]
    /\ UNCHANGED <<routes, routes_snapshot, cacheVars, published, registered,
                   nreq, nreg, nops, matchVars, listenVars,
                   bindingVars>>

\* a registry hit that runs the handler without the hot-cache write
AfterRegistryHitNoSet == "execute"

\* if let Some(callback) = self.find_route(..) : self.hot_cache.set(..) comes
\* first, then execute_handler
AfterRegistryHit == "set_hot"

\* find_route : the direct lookup routes.get(route_key)
FindExact(r) ==
    /\ pc[r] = "find_exact"
    /\ LET hit == loc[r].route_key \in DOMAIN routes
           h   == IF hit THEN routes[loc[r].route_key].handler ELSE None
       IN  /\ loc' = [loc EXCEPT ![r].handler = h]
           /\ obs' = [obs EXCEPT ![r].trace = Append(@, <<"registry_exact", h>>)]
           /\ pc' = [pc EXCEPT ![r] = IF hit THEN AfterRegistryHit ELSE "find_scan"]
    /\ UNCHANGED <<routes, routes_snapshot, cacheVars, published, registered,
                   nreq, nreg, nops, matchVars, listenVars,
                   bindingVars>>

\* a scan that matches the paths whatever method the route was registered under
MatchingRoutesAnyMethod(route_key) ==
    {k \in DOMAIN routes : route_matches(<<route_key[1]>> \o Tail(k), route_key)}

\* the registered keys whose pattern accepts the request key
MatchingRoutes(route_key) == {k \in DOMAIN routes : route_matches(k, route_key)}

\* find_route : routes.iter().find(route_matches) - the first match in the
\* map's iteration order, which is any of the matching entries
FindScan(r) ==
    /\ pc[r] = "find_scan"
    /\ LET found == MatchingRoutes(loc[r].route_key)
       IN  IF found # {}
           THEN \E k \in found :
                  /\ loc' = [loc EXCEPT ![r].handler = routes[k].handler]
                  /\ obs' = [obs EXCEPT ![r].trace =
                               Append(@, <<"registry_scan", routes[k].handler>>)]
                  /\ pc' = [pc EXCEPT ![r] = AfterRegistryHit]
           ELSE /\ loc' = [loc EXCEPT ![r].handler = None]
                /\ obs' = [obs EXCEPT ![r].trace = Append(@, <<"registry_scan", None>>)]
                /\ pc' = [pc EXCEPT ![r] = "not_found"]
    /\ UNCHANGED <<routes, routes_snapshot, cacheVars, published, registered,
                   nreq, nreg, nops, matchVars, listenVars,
                   bindingVars>>

(***************************************************************************)
(* JSON decoding (simd_json / serde_json from_slice into a Value): objects, *)
(* arrays, strings without escapes, unsigned integers, true, false, null,  *)
(* whitespace; the whole slice must be one value.                          *)
(***************************************************************************)
JsonValue(t, text, items) == [t |-> t, text |-> text, items |-> items]

ParseFail == [ok |-> FALSE, next |-> 0, value |-> JsonValue("none", <<>>, <<>>)]

ParseOk(next, value) == [ok |-> TRUE, next |-> next, value |-> value]

IsDigit(c) == c \in 48..57

IsWs(c) == c \in {9, 10, 13, 32}

\* the first index at or after i that holds no whitespace
RECURSIVE SkipWs(_, _)
SkipWs(b, i) == IF i <= Len(b) /\ IsWs(b[i]) THEN SkipWs(b, i + 1) ELSE i

\* the first index at or after i that holds no digit
RECURSIVE SkipDigits(_, _)
SkipDigits(b, i) == IF i <= Len(b) /\ IsDigit(b[i]) THEN SkipDigits(b, i + 1) ELSE i

\* an unsigned integer; a leading 0 stands alone
ParseNumber(b, i) ==
    LET j == IF b[i] = 48 THEN i + 1 ELSE SkipDigits(b, i)
    IN  ParseOk(j, JsonValue("num", SubSeq(b, i, j - 1), <<>>))

\* true, false, null
ParseLiteral(b, i, word) ==
    IF i + Len(word) - 1 <= Len(b) /\ SubSeq(b, i, i + Len(word) - 1) = word
    THEN ParseOk(i + Len(word), JsonValue("lit", word, <<>>))
    ELSE ParseFail

\* a string: from the opening quote at i to the next quote, no escape and
\* no control character in between
ParseString(b, i) ==
    LET closing == {j \in (i + 1)..Len(b) : b[j] = 34}
    IN  IF closing = {} THEN ParseFail
        ELSE LET j == CHOOSE x \in closing : \A y \in closing : x <= y
             IN  IF \E k \in (i + 1)..(j - 1) : b[k] = 92 \/ b[k] < 32
                 THEN ParseFail
                 ELSE ParseOk(j + 1, JsonValue("str", SubSeq(b, i + 1, j - 1), <<>>))

RECURSIVE ParseValue(_, _)
RECURSIVE ParseElements(_, _, _)
RECURSIVE ParseMembers(_, _, _)

\* the elements of an array from index i on, up to the closing bracket
ParseElements(b, i, acc) ==
    LET v == ParseValue(b, i)
        j == SkipWs(b, v.next)
    IN  IF ~v.ok \/ j > Len(b) THEN ParseFail
        ELSE IF b[j] = 44 THEN ParseElements(b, j + 1, Append(acc, v.value))
        ELSE IF b[j] = 93 THEN ParseOk(j + 1, JsonValue("arr", <<>>, Append(acc, v.value)))
        ELSE ParseFail

\* the members of an object from index i on, up to the closing brace
ParseMembers(b, i, acc) ==
    LET ki == SkipWs(b, i)
        k  == IF ki <= Len(b) /\ b[ki] = 34 THEN ParseString(b, ki) ELSE ParseFail
        c  == SkipWs(b, k.next)
        v  == IF k.ok /\ c <= Len(b) /\ b[c] = 58 THEN ParseValue(b, c + 1) ELSE ParseFail
        j  == SkipWs(b, v.next)
    IN  IF ~v.ok \/ j > Len(b) THEN ParseFail
        ELSE IF b[j] = 44
             THEN ParseMembers(b, j + 1, Append(acc, <<k.value.text, v.value>>))
        ELSE IF b[j] = 125
             THEN ParseOk(j + 1, JsonValue("obj", <<>>,
                                           Append(acc, <<k.value.text, v.value>>)))
        ELSE ParseFail

ParseValue(b, i) ==
    LET j == SkipWs(b, i)
    IN  IF j > Len(b) THEN ParseFail
        ELSE IF b[j] = 123
             THEN LET n == SkipWs(b, j + 1)
                  IN  IF n <= Len(b) /\ b[n] = 125
                      THEN ParseOk(n + 1, JsonValue("obj", <<>>, <<>>))
                      ELSE ParseMembers(b, j + 1, <<>>)
        ELSE IF b[j] = 91
             THEN LET n == SkipWs(b, j + 1)
                  IN  IF n <= Len(b) /\ b[n] = 93
                      THEN ParseOk(n + 1, JsonValue("arr", <<>>, <<>>))
                      ELSE ParseElements(b, j + 1, <<>>)
        ELSE IF b[j] = 34 THEN ParseString(b, j)
        ELSE IF IsDigit(b[j]) THEN ParseNumber(b, j)
        ELSE IF b[j] = 116 THEN ParseLiteral(b, j, <<116, 114, 117, 101>>)
        ELSE IF b[j] = 102 THEN ParseLiteral(b, j, <<102, 97, 108, 115, 101>>)
        ELSE IF b[j] = 110 THEN ParseLiteral(b, j, <<110, 117, 108, 108>>)
        ELSE ParseFail

\* from_slice(..).ok() : <<value>> when the slice is one JSON value, <<>>
\* otherwise (trailing bytes other than whitespace are an error)
JsonDecode(b) ==
    LET v == ParseValue(b, 1)
    IN  IF v.ok /\ SkipWs(b, v.next) > Len(b) THEN <<v.value>> ELSE <<>>

\* b"application/json"
CONTENT_TYPE_JSON_BYTES ==
    <<97, 112, 112, 108, 105, 99, 97, 116, 105, 111, 110, 47, 106, 115, 111, 110>>

\* a body whose collection fails: req.collect().await is Err
ReadError == <<-1>>

\* parse_json_body_fast : Option<Value> as <<>> / <<value>>.  No header, a
\* header shorter than the 16 bytes of "application/json" or not starting
\* with them, a body that cannot be read, a body under 2 bytes and a decode
\* failure all give None.
parse_json_body_fast(content_type, body) ==
    IF content_type = <<>> THEN <<>>
    ELSE IF Len(content_type[1]) < Len(CONTENT_TYPE_JSON_BYTES) THEN <<>>
    ELSE IF SubSeq(content_type[1], 1, Len(CONTENT_TYPE_JSON_BYTES))
               # CONTENT_TYPE_JSON_BYTES THEN <<>>
    ELSE IF body = ReadError THEN <<>>
    ELSE IF Len(body) < 2 THEN <<>>
    ELSE JsonDecode(body)

\* options built without looking at the method
OptionsAnyMethod(method, content_type, body) ==
    [body |-> parse_json_body_fast(content_type, body), params |-> None]

\* execute_handler : the options handed to the callback
Options(method, content_type, body) ==
    [body   |-> IF method \in {"POST", "PUT", "PATCH"}
                THEN parse_json_body_fast(content_type, body) ELSE <<>>,
     params |-> None]

\* a dispatcher that answers 400 when a POST, PUT or PATCH body does not parse
ExecuteStrict(r) ==
    /\ pc[r] = "execute"
    /\ LET opts == Options(obs[r].method, obs[r].content_type, obs[r].body)
       IN  IF obs[r].method \in {"POST", "PUT", "PATCH"} /\ opts.body = <<>>
           THEN obs' = [obs EXCEPT ![r].opts = opts,
                                   ![r].response =
                                       build_response_fast([status_code |-> 400,
                                                            data |-> <<>>])]
           ELSE obs' = [obs EXCEPT ![r].invoked = loc[r].handler,
                                   ![r].calls = @ + 1,
                                   ![r].opts = opts,
                                   ![r].response =
                                       build_response_fast(HandlerResult(loc[r].handler))]
    /\ pc' = [pc EXCEPT ![r] = "done"]
    /\ UNCHANGED <<routes, routes_snapshot, cacheVars, loc, published, registered,
                   nreq, nreg, nops, matchVars, listenVars,
                   bindingVars>>

\* a handler call that runs the handler twice
ExecuteTwice(r) ==
    /\ pc[r] = "execute"
    /\ obs' = [obs EXCEPT ![r].invoked = loc[r].handler,
                          ![r].calls = @ + 2,
                          ![r].opts = Options(obs[r].method, obs[r].content_type,
                                              obs[r].body),
                          ![r].response = build_response_fast(HandlerResult(loc[r].handler))]
    /\ pc' = [pc EXCEPT ![r] = "done"]
    /\ UNCHANGED <<routes, routes_snapshot, cacheVars, loc, published, registered,
                   nreq, nreg, nops, matchVars, listenVars, bindingVars>>

\* execute_handler : parse the body when the method carries one, call the
\* handler once, build the response
Execute(r) ==
    /\ pc[r] = "execute"
    /\ obs' = [obs EXCEPT ![r].invoked = loc[r].handler,
                          ![r].calls = @ + 1,
                          ![r].opts = Options(obs[r].method, obs[r].content_type,
                                              obs[r].body),
                          ![r].response = build_response_fast(HandlerResult(loc[r].handler))]
    /\ pc' = [pc EXCEPT ![r] = "done"]
    /\ UNCHANGED <<routes, routes_snapshot, cacheVars, loc, published, registered,
                   nreq, nreg, nops, matchVars, listenVars,
                   bindingVars>>

\* a 404 that also caches the miss under the request's hash
NotFoundCaching(r) ==
    /\ pc[r] = "not_found"
    /\ obs' = [obs EXCEPT ![r].response = not_found_response]
    /\ pc' = [pc EXCEPT ![r] = "done"]
    /\ entries' = [entries EXCEPT ![shard_index(loc[r].route_hash)] =
                     MapInsert(@, loc[r].route_hash, CacheEntry(None))]
    /\ UNCHANGED <<routes, routes_snapshot, hot_slot, lock, hits, misses, fresh, loc,
                   published, registered, nreq, nreg, nops, matchVars, listenVars,
                   bindingVars>>

\* None => Ok(Self::not_found_response())
NotFound(r) ==
    /\ pc[r] = "not_found"
    /\ obs' = [obs EXCEPT ![r].response = not_found_response]
    /\ pc' = [pc EXCEPT ![r] = "done"]
    /\ UNCHANGED <<routes, routes_snapshot, cacheVars, loc, published, registered,
                   nreq, nreg, nops, matchVars, listenVars,
                   bindingVars>>

\* the response goes out; the connection's task waits for the next request
Respond(r) ==
    /\ pc[r] = "done"
    /\ pc' = [pc EXCEPT ![r] = "idle"]
    /\ loc' = [loc EXCEPT ![r] = IdleLoc]
    /\ obs' = [obs EXCEPT ![r] = IdleObs]
    /\ UNCHANGED <<routes, routes_snapshot, cacheVars, published, registered,
                   nreq, nreg, nops, matchVars, listenVars,
                   bindingVars>>

(***************************************************************************)
(* tachyon.rs : listen                                                     *)
(***************************************************************************)
\* the fallible calls before the loop, in order: TcpSocket::new_v4()?,
\* set_reuseaddr(true)?, bind(addr)?, listen(65535)?
StartupSteps == <<"socket", "reuseaddr", "bind", "listen">>

MaxAccepts == 3
MaxConnRequests == 2

\* the state of everything but the listen call and its connection tasks
ListenFrame ==
    UNCHANGED <<routes, routes_snapshot, cacheVars, pc, loc, obs, published,
                registered, nreq, nreg, nops, matchVars, bindingVars>>

\* listen is called
ListenCall ==
    /\ listen_pc = "new"
    /\ listen_pc' = StartupSteps[1]
    /\ UNCHANGED <<listen_out, conns, naccept>>
    /\ ListenFrame

\* one startup call returns: Err leaves listen through `?`, Ok goes on to
\* the next call and, after the last, into the accept loop
ListenStartup(ok) ==
    /\ \E i \in 1..Len(StartupSteps) :
          /\ listen_pc = StartupSteps[i]
          /\ IF ok
             THEN /\ listen_pc' = IF i < Len(StartupSteps) THEN StartupSteps[i + 1]
                                  ELSE "accept"
                  /\ UNCHANGED listen_out
             ELSE /\ listen_pc' = "returned"
                  /\ listen_out' = <<"Err", StartupSteps[i]>>
    /\ UNCHANGED <<conns, naccept>>
    /\ ListenFrame

\* listener.accept().await? : Ok spawns the connection task and loops, Err
\* leaves listen through `?`
Accept(ok) ==
    /\ listen_pc = "accept"
    /\ naccept < MaxAccepts
    /\ naccept' = naccept + 1
    /\ IF ok
       THEN /\ conns' = MapInsert(conns, naccept + 1, [state |-> "open", served |-> 0])
            /\ UNCHANGED <<listen_pc, listen_out>>
       ELSE /\ listen_pc' = "returned"
            /\ listen_out' = <<"Err", "accept">>
            /\ UNCHANGED conns
    /\ ListenFrame

\* a connection task serves one request of its connection (keep-alive)
ConnServe(c) ==
    /\ c \in DOMAIN conns
    /\ conns[c].state = "open"
    /\ conns[c].served < MaxConnRequests
    /\ conns' = [conns EXCEPT ![c].served = @ + 1]
    /\ UNCHANGED <<listen_pc, listen_out, naccept>>
    /\ ListenFrame

\* a connection task ends: the peer closes ("closed"), conn.await is Err and
\* the error is ignored ("io_error"), or handle_request_fast panics and the
\* task unwinds ("panicked")
ConnEnd(c, how) ==
    /\ c \in DOMAIN conns
    /\ conns[c].state = "open"
    /\ conns' = [conns EXCEPT ![c].state = how]
    /\ UNCHANGED <<listen_pc, listen_out, naccept>>
    /\ ListenFrame

(***************************************************************************)
(* Direct calls of the HotCache API                                        *)
(***************************************************************************)
CacheCall(p, op, route_key, h, limit) ==
    /\ pc[p] = "idle"
    /\ nops < limit
    /\ nops' = nops + 1
    /\ loc' = [loc EXCEPT ![p] =
                 [IdleLoc EXCEPT !.op = op, !.route_key = route_key,
                                 !.route_hash = IF op = "clear" THEN <<>>
                                                ELSE fast_hash(route_key),
                                 !.handler = IF op = "set" THEN h ELSE None]]
    /\ pc' = [pc EXCEPT ![p] = CASE op = "set"   -> "set_hot"
                                 [] op = "clear" -> "clear_hot"
                                 [] OTHER        -> "get_hot"]
    /\ UNCHANGED <<routes, routes_snapshot, cacheVars, obs, published, registered,
                   nreq, nreg, matchVars, listenVars,
                   bindingVars>>

(***************************************************************************)
(* Inputs                                                                  *)
(***************************************************************************)
\* paths: "/:p", "/v", "/6", "/ae", "/" ; "/v", "/6" and "/ae" hash into
\* one shard under GET
PathParam == <<SLASH, COLON, 112>>
PathV     == <<SLASH, 118>>
Path6     == <<SLASH, 54>>
PathAE    == <<SLASH, 97, 101>>

\* (method, path, handler) of the registrations explored
RegRoutes == {<<"GET", PathParam, "H2">>, <<"GET", PathV, "H1">>}
ReqRoutes == {<<"GET", PathV>>, <<"GET", Path6>>, <<"GET", PathAE>>}

CacheKeys == {RouteKey("GET", PathV), RouteKey("GET", Path6), RouteKey("GET", PathAE)}

\* GET /users/:id and the requests GET /users/42, GET /users/
PathUsersId    == <<SLASH, 117, 115, 101, 114, 115, SLASH, COLON, 105, 100>>
PathUsers42    == <<SLASH, 117, 115, 101, 114, 115, SLASH, 52, 50>>
PathUsersEmpty == <<SLASH, 117, 115, 101, 114, 115, SLASH>>

\* route_matches inputs: keys "<digit>:/seg/seg..." with up to MaxSegs
\* segments; a candidate segment may be LongLen bytes long
MaxSegs == 3
LongLen == 53

LongSeg == [i \in 1..LongLen |-> 97]

\* "", "a", "b", ":a"
PatternSegs == {<<>>, <<97>>, <<98>>, <<COLON, 97>>}
\* "", "a", "b", "aaa...a"
CandidateSegs == {<<>>, <<97>>, <<98>>, LongSeg}

RECURSIVE JoinPath(_, _)
JoinPath(segs, i) ==
    IF i > Len(segs) THEN <<>> ELSE <<SLASH>> \o segs[i] \o JoinPath(segs, i + 1)

PathsOver(segSet) ==
    UNION {{JoinPath(f, 1) : f \in [1..n -> segSet]} : n \in 1..MaxSegs}

PatternKeys == {<<48, COLON>> \o p : p \in PathsOver(PatternSegs)}
CandidateKeys == {<<d, COLON>> \o p : d \in {48, 49}, p \in PathsOver(CandidateSegs)}

(***************************************************************************)
(* Specifications                                                          *)
(***************************************************************************)
Init ==
    /\ routes = EmptyMap
    /\ routes_snapshot = EmptyMap
    /\ hot_slot = [s \in Shards |-> <<>>]
    /\ entries = [s \in Shards |-> EmptyMap]
    /\ lock = [s \in Shards |-> None]
    /\ hits = 0
    /\ misses = 0
    /\ pc = [p \in Procs |-> "idle"]
    /\ loc = [p \in Procs |-> IdleLoc]
    /\ obs = [r \in Tasks |-> IdleObs]
    /\ published = {}
    /\ registered = {}
    /\ fresh = [s \in Shards |-> <<>>]
    /\ nreq = 0
    /\ nreg = 0
    /\ nops = 0
    /\ pat = <<>>
    /\ cand = <<>>
    /\ res = <<>>
    /\ BindingInit

\* the server: registrations racing with each other and with requests
RaceTasks == {"t1"}

Next ==
    \/ \E t \in RegThreads, rt \in RegRoutes : RegInsert(t, rt[1], rt[2], rt[3])
    \/ \E t \in RegThreads : RegLoad(t)
    \/ \E t \in RegThreads : RegStore(t)
    \/ \E r \in RaceTasks, rq \in ReqRoutes : ReqStart(r, rq[1], rq[2], MaxRequests)
    \/ \E r \in RaceTasks : ReqSnapshot(r)
    \/ \E r \in RaceTasks : GetHot(r)
    \/ \E r \in RaceTasks : GetMap(r)
    \/ \E r \in RaceTasks : FindExact(r)
    \/ \E r \in RaceTasks : FindScan(r)
    \/ \E r \in RaceTasks : SetHot(r)
    \/ \E r \in RaceTasks : SetLock(r)
    \/ \E r \in RaceTasks : SetInsert(r)
    \/ \E r \in RaceTasks : Execute(r)
    \/ \E r \in RaceTasks : NotFound(r)
    \/ \E r \in RaceTasks : Respond(r)

Spec == Init /\ [][Next]_vars

\* the server once GET /:p is registered, serving concurrent requests
ServeRegister ==
    /\ nreg = 0
    /\ RegInsert("r1", "GET", PathParam, "H2")

NextServe ==
    \/ ServeRegister
    \/ RegLoad("r1")
    \/ RegStore("r1")
    \/ \E r \in Tasks, rq \in ReqRoutes : ReqStart(r, rq[1], rq[2], MaxServeRequests)
    \/ \E r \in Tasks : ReqSnapshot(r)
    \/ \E r \in Tasks : GetHot(r)
    \/ \E r \in Tasks : GetMap(r)
    \/ \E r \in Tasks : FindExact(r)
    \/ \E r \in Tasks : FindScan(r)
    \/ \E r \in Tasks : SetHot(r)
    \/ \E r \in Tasks : SetLock(r)
    \/ \E r \in Tasks : SetInsert(r)
    \/ \E r \in Tasks : Execute(r)
    \/ \E r \in Tasks : NotFound(r)
    \/ \E r \in Tasks : Respond(r)

SpecServe == Init /\ [][NextServe]_vars

\* the hot cache alone, called concurrently through its public API
NextCache ==
    \/ \E p \in CacheThreads, op \in {"get", "set", "get_or_insert", "clear"},
          k \in CacheKeys : CacheCall(p, op, k, "H1", MaxOps)
    \/ \E p \in CacheThreads : GetHot(p)
    \/ \E p \in CacheThreads : GetMap(p)
    \/ \E p \in CacheThreads, h \in {"H1", None} : Factory(p, h)
    \/ \E p \in CacheThreads : SetHot(p)
    \/ \E p \in CacheThreads : SetLock(p)
    \/ \E p \in CacheThreads : SetInsert(p)
    \/ \E p \in CacheThreads : ClearHot(p)
    \/ \E p \in CacheThreads : ClearLock(p)
    \/ \E p \in CacheThreads : ClearEntries(p)

SpecCache == Init /\ [][NextCache]_vars

\* the hot cache filled by concurrent get and set calls
NextEvict ==
    \/ \E p \in CacheThreads, op \in {"get", "set"}, k \in CacheKeys :
          CacheCall(p, op, k, "H1", MaxEvictOps)
    \/ \E p \in CacheThreads : GetHot(p)
    \/ \E p \in CacheThreads : GetMap(p)
    \/ \E p \in CacheThreads : SetHot(p)
    \/ \E p \in CacheThreads : SetLock(p)
    \/ \E p \in CacheThreads : SetInsert(p)

SpecEvict == Init /\ [][NextEvict]_vars

\* direct cache calls explored by the hot-slot specification
MaxHotOps == 4

\* two keys of one shard
HotKeys == {RouteKey("GET", PathV), RouteKey("GET", Path6)}

\* the hot cache read and written concurrently, two keys and two handlers
NextHot ==
    \/ \E p \in CacheThreads, k \in HotKeys : CacheCall(p, "get", k, None, MaxHotOps)
    \/ \E p \in CacheThreads, k \in HotKeys, h \in Handlers :
          CacheCall(p, "set", k, h, MaxHotOps)
    \/ \E p \in CacheThreads : GetHot(p)
    \/ \E p \in CacheThreads : GetMap(p)
    \/ \E p \in CacheThreads : SetHot(p)
    \/ \E p \in CacheThreads : SetLock(p)
    \/ \E p \in CacheThreads : SetInsert(p)

SpecHot == Init /\ [][NextHot]_vars

\* requests explored by the re-registration specification
MaxReregRequests == 2

\* GET /:p registered with H2 and registered again with H1
ReregRoutes == {<<"GET", PathParam, "H2">>, <<"GET", PathParam, "H1">>}

\* one thread registering and re-registering a route while requests are served
NextRereg ==
    \/ \E rt \in ReregRoutes : RegInsert("r1", rt[1], rt[2], rt[3])
    \/ RegLoad("r1")
    \/ RegStore("r1")
    \/ \E r \in RaceTasks, rq \in {<<"GET", PathV>>, <<"GET", Path6>>} :
          ReqStart(r, rq[1], rq[2], MaxReregRequests)
    \/ \E r \in RaceTasks : ReqSnapshot(r)
    \/ \E r \in RaceTasks : GetHot(r)
    \/ \E r \in RaceTasks : GetMap(r)
    \/ \E r \in RaceTasks : FindExact(r)
    \/ \E r \in RaceTasks : FindScan(r)
    \/ \E r \in RaceTasks : SetHot(r)
    \/ \E r \in RaceTasks : SetLock(r)
    \/ \E r \in RaceTasks : SetInsert(r)
    \/ \E r \in RaceTasks : Execute(r)
    \/ \E r \in RaceTasks : NotFound(r)
    \/ \E r \in RaceTasks : Respond(r)

SpecRereg == Init /\ [][NextRereg]_vars

\* requests explored by the body specification
MaxBodyRequests == 2

\* the five supported methods and HEAD
RequestMethods == Methods \cup {"HEAD"}

\* content-type headers: absent, "application/json", "text/plain",
\* "application/json; charset=utf-8", "application/jso"
ContentTypes ==
    {<<>>,
     <<CONTENT_TYPE_JSON_BYTES>>,
     <<<<116, 101, 120, 116, 47, 112, 108, 97, 105, 110>>>>,
     <<CONTENT_TYPE_JSON_BYTES
         \o <<59, 32, 99, 104, 97, 114, 115, 101, 116, 61, 117, 116, 102, 45, 56>>>>,
     <<SubSeq(CONTENT_TYPE_JSON_BYTES, 1, 15)>>}

\* bodies: empty, "1", "{", "{}", "[]", "12", " 7", "{]", "[1", "[1,2]",
\* "{} x", {"a":1}, {"a":[true,null]}, and a body that cannot be read
Bodies ==
    {<<>>, <<49>>, <<123>>, <<123, 125>>, <<91, 93>>, <<49, 50>>, <<32, 55>>,
     <<123, 93>>, <<91, 49>>, <<91, 49, 44, 50, 93>>, <<123, 125, 32, 120>>,
     <<123, 34, 97, 34, 58, 49, 125>>,
     <<123, 34, 97, 34, 58, 91, 116, 114, 117, 101, 44, 110, 117, 108, 108, 93, 125>>,
     ReadError}

\* the handler registered for method m on /v
BodyHandler(m) == IF m \in {"POST", "PUT", "PATCH"} THEN "H1" ELSE "H2"

BodyRoutes == {<<RouteKey(m, PathV), BodyHandler(m)>> : m \in Methods}

\* the server after /v was registered under each of the five methods, one
\* register_route call after the other
InitBody ==
    /\ routes = [k \in {e[1] : e \in BodyRoutes} |->
                   [method |-> k[1] - 48,
                    handler |-> (CHOOSE e \in BodyRoutes : e[1] = k)[2]]]
    /\ routes_snapshot = [h \in {fast_hash(e[1]) : e \in BodyRoutes} |->
                            (CHOOSE e \in BodyRoutes : fast_hash(e[1]) = h)[2]]
    /\ hot_slot = [s \in Shards |-> <<>>]
    /\ entries = [s \in Shards |-> EmptyMap]
    /\ lock = [s \in Shards |-> None]
    /\ hits = 0
    /\ misses = 0
    /\ pc = [p \in Procs |-> "idle"]
    /\ loc = [p \in Procs |-> IdleLoc]
    /\ obs = [r \in Tasks |-> IdleObs]
    /\ published = BodyRoutes
    /\ registered = BodyRoutes
    /\ fresh = [s \in Shards |-> <<>>]
    /\ nreq = 0
    /\ nreg = 0
    /\ nops = 0
    /\ pat = <<>>
    /\ cand = <<>>
    /\ res = <<>>
    /\ BindingInit

\* requests of every method, with and without JSON bodies, for /v and for
\* the unregistered /6
NextBody ==
    \/ \E r \in RaceTasks, m \in RequestMethods, path \in {PathV, Path6},
          ct \in ContentTypes, body \in Bodies :
          Arrive(r, m, path, ct, body, MaxBodyRequests)
    \/ \E r \in RaceTasks : ReqSnapshot(r)
    \/ \E r \in RaceTasks : GetHot(r)
    \/ \E r \in RaceTasks : GetMap(r)
    \/ \E r \in RaceTasks : FindExact(r)
    \/ \E r \in RaceTasks : FindScan(r)
    \/ \E r \in RaceTasks : Execute(r)
    \/ \E r \in RaceTasks : NotFound(r)
    \/ \E r \in RaceTasks : Respond(r)
    \/ \E r \in RaceTasks : Unwind(r)

SpecBody == InitBody /\ [][NextBody]_vars

\* the binding: register_route calls with methods in any letter case, some
\* of them unsupported, racing on two threads
NapiGet   == <<103, 101, 116>>
NapiGET   == <<71, 69, 84>>
NapiPut   == <<80, 117, 116>>
NapiHead  == <<104, 101, 97, 100>>
NapiHEAD  == <<72, 69, 65, 68>>

NapiMethods == {NapiGet, NapiGET, NapiPut, NapiHead, NapiHEAD}

NextNapi ==
    \/ \E t \in RegThreads, m \in NapiMethods, cb \in Callbacks :
          NapiRegister(t, m, PathV, cb)
    \/ \E t \in RegThreads : NapiLock(t)
    \/ \E t \in RegThreads : NapiClone(t)
    \/ \E t \in RegThreads : NapiStore(t)
    \/ \E t \in RegThreads : NapiMatch(t)
    \/ \E t \in RegThreads : RegLoad(t)
    \/ \E t \in RegThreads : RegStore(t)

SpecNapi == Init /\ [][NextNapi]_vars

\* the binding once GET /v (callback J1) and PUT /v (callback J2) are
\* registered: concurrent invocations of the route closures; the closure of
\* GET /6 stands for a route hash with no stored callback
NapiKey(method, path) == ToUpper(method) \o <<COLON>> \o path

InvokeHashes ==
    {fast_hash(NapiKey(NapiGet, PathV)), fast_hash(NapiKey(NapiPut, PathV)),
     fast_hash(NapiKey(NapiGet, Path6))}

InvokeOpts ==
    {[body |-> b, params |-> None] :
        b \in {<<>>, JsonDecode(<<49>>),
               JsonDecode(<<123, 34, 97, 34, 58, 32, 49, 125>>)}}

InitInvoke ==
    /\ routes = MapInsert(MapInsert(EmptyMap, RouteKey("GET", PathV),
                                    [method |-> MethodId("GET"), handler |-> Closure]),
                          RouteKey("PUT", PathV),
                          [method |-> MethodId("PUT"), handler |-> Closure])
    /\ routes_snapshot = [h \in {fast_hash(k) : k \in DOMAIN routes} |-> Closure]
    /\ hot_slot = [s \in Shards |-> <<>>]
    /\ entries = [s \in Shards |-> EmptyMap]
    /\ lock = [s \in Shards |-> None]
    /\ hits = 0
    /\ misses = 0
    /\ pc = [p \in Procs |-> "idle"]
    /\ loc = [p \in Procs |-> IdleLoc]
    /\ obs = [r \in Tasks |-> IdleObs]
    /\ published = {<<k, Closure>> : k \in DOMAIN routes}
    /\ registered = published
    /\ fresh = [s \in Shards |-> <<>>]
    /\ nreq = 0
    /\ nreg = 2
    /\ nops = 0
    /\ pat = <<>>
    /\ cand = <<>>
    /\ res = <<>>
    /\ callbacks = MapInsert(MapInsert(EmptyMap, fast_hash(NapiKey(NapiGet, PathV)), "J1"),
                             fast_hash(NapiKey(NapiPut, PathV)), "J2")
    /\ write_lock = None
    /\ nloc = [t \in RegThreads |-> IdleNapi]
    /\ napi_out = [t \in RegThreads |-> <<"Ok">>]
    /\ chans = EmptyMap
    /\ jsq = {}
    /\ cur = [r \in Tasks |-> IdleInv]
    /\ outcome = [r \in Tasks |-> <<>>]
    /\ ninv = 0
    /\ ListenInit

NextInvoke ==
    \/ \E r \in Tasks, h \in InvokeHashes, o \in InvokeOpts : Invoke(r, h, o)
    \/ \E q \in jsq : JsReturn(q)
    \/ \E q \in jsq : JsFail(q)
    \/ \E r \in Tasks : Recv(r)
    \/ \E r \in Tasks : RecvTimeout(r)
    \/ \E r \in Tasks : RecvDisconnected(r)

SpecInvoke == InitInvoke /\ [][NextInvoke]_vars

\* the server from the call of listen on: startup, accepts, connections
NextListen ==
    \/ ListenCall
    \/ \E ok \in BOOLEAN : ListenStartup(ok)
    \/ \E ok \in BOOLEAN : Accept(ok)
    \/ \E c \in DOMAIN conns : ConnServe(c)
    \/ \E c \in DOMAIN conns, how \in {"closed", "io_error", "panicked"} : ConnEnd(c, how)

SpecListen == Init /\ [][NextListen]_vars

\* the callback store: two threads registering "get" and "head" routes
\* (the insert comes before the method is looked at) while a task reads
StoreHashes == {fast_hash(NapiKey(NapiGet, PathV)), fast_hash(NapiKey(NapiHead, PathV))}

NextStore ==
    \/ \E t \in RegThreads, m \in {NapiGet, NapiHead}, cb \in Callbacks :
          NapiRegister(t, m, PathV, cb)
    \/ \E t \in RegThreads : NapiLock(t)
    \/ \E t \in RegThreads : NapiClone(t)
    \/ \E t \in RegThreads : NapiStore(t)
    \/ \E t \in RegThreads : NapiMatch(t)
    \/ \E t \in RegThreads : RegLoad(t)
    \/ \E t \in RegThreads : RegStore(t)
    \/ \E r \in RaceTasks, h \in StoreHashes : StoreGet(r, h)

SpecStore == Init /\ [][NextStore]_vars

\* two threads registering and re-registering GET /v with either handler
NextSameKey ==
    \/ \E t \in RegThreads, h \in Handlers : RegInsert(t, "GET", PathV, h)
    \/ \E t \in RegThreads : RegLoad(t)
    \/ \E t \in RegThreads : RegStore(t)

SpecSameKey == Init /\ [][NextSameKey]_vars

\* the server with POST /v -> H1 and GET /:p -> H2 registered on two racing
\* threads, serving GET and POST requests for /v and /6
MaxMethodRequests == 2

MethodRoutes == {<<"GET", PathV>>, <<"POST", PathV>>, <<"GET", Path6>>, <<"POST", Path6>>}

MethodRegister(t) ==
    LET h == IF t = "r1" THEN "H1" ELSE "H2"
    IN  /\ \A e \in registered : e[2] # h
        /\ IF t = "r1" THEN RegInsert(t, "POST", PathV, h)
           ELSE RegInsert(t, "GET", PathParam, h)

NextMethods ==
    \/ \E t \in RegThreads : MethodRegister(t)
    \/ \E t \in RegThreads : RegLoad(t)
    \/ \E t \in RegThreads : RegStore(t)
    \/ \E r \in RaceTasks, rq \in MethodRoutes : ReqStart(r, rq[1], rq[2], MaxMethodRequests)
    \/ \E r \in RaceTasks : ReqSnapshot(r)
    \/ \E r \in RaceTasks : GetHot(r)
    \/ \E r \in RaceTasks : GetMap(r)
    \/ \E r \in RaceTasks : FindExact(r)
    \/ \E r \in RaceTasks : FindScan(r)
    \/ \E r \in RaceTasks : SetHot(r)
    \/ \E r \in RaceTasks : SetLock(r)
    \/ \E r \in RaceTasks : SetInsert(r)
    \/ \E r \in RaceTasks : Execute(r)
    \/ \E r \in RaceTasks : NotFound(r)
    \/ \E r \in RaceTasks : Respond(r)

SpecMethods == Init /\ [][NextMethods]_vars

\* a step of request task r's dispatch
RequestStep(r) ==
    \/ ReqSnapshot(r) \/ GetHot(r) \/ GetMap(r) \/ FindExact(r) \/ FindScan(r)
    \/ SetHot(r) \/ SetLock(r) \/ SetInsert(r) \/ Execute(r) \/ NotFound(r)

\* the same server under tokio's scheduling: a request task that can take
\* a step is eventually polled
SpecMethodsFair == SpecMethods /\ \A r \in RaceTasks : WF_vars(RequestStep(r))

\* direct cache calls and requests explored by the termination specification
MaxLiveOps == 2
MaxLiveRequests == 1

\* the key the request asks for, so that the direct calls and the request
\* meet on one shard
LiveKeys == {RouteKey("GET", PathV)}

\* the thread that calls the cache directly
LiveThreads == {"c1"}

\* a step of a thread inside a HotCache call
CacheStep(p) ==
    \/ GetHot(p) \/ GetMap(p) \/ (\E h \in {"H1", None} : Factory(p, h))
    \/ SetHot(p) \/ SetLock(p) \/ SetInsert(p)
    \/ ClearHot(p) \/ ClearLock(p) \/ ClearEntries(p)

\* get, set, get_or_insert and clear called while GET /:p is being
\* registered and a request for GET /v is dispatched through the cache
NextLive ==
    \/ \E p \in LiveThreads, op \in {"get", "set", "get_or_insert", "clear"},
          k \in LiveKeys : CacheCall(p, op, k, "H1", MaxLiveOps)
    \/ \E p \in LiveThreads : CacheStep(p)
    \/ ServeRegister
    \/ RegLoad("r1")
    \/ RegStore("r1")
    \/ \E r \in RaceTasks : ReqStart(r, "GET", PathV, MaxLiveRequests)
    \/ \E r \in RaceTasks : RequestStep(r)
    \/ \E r \in RaceTasks : Respond(r)

SpecLive == Init /\ [][NextLive]_vars

\* the same program under a fair scheduler: a thread inside a cache call and
\* a request task inside its dispatch are eventually run when they can take
\* a step (OS threads and tokio tasks; parking_lot's RwLock hands the lock
\* to a waiter once it is free)
SpecLiveFair ==
    /\ SpecLive
    /\ \A p \in LiveThreads : WF_vars(CacheStep(p))
    /\ \A r \in RaceTasks : WF_vars(RequestStep(r))

\* the scenario of one route GET /users/:id -> H1
MaxUsersRequests == 3

UsersRoutes == {<<"GET", PathUsers42>>, <<"GET", PathUsersEmpty>>}

UsersRegister ==
    /\ nreg = 0
    /\ RegInsert("r1", "GET", PathUsersId, "H1")

NextUsers ==
    \/ UsersRegister
    \/ RegLoad("r1")
    \/ RegStore("r1")
    \/ \E r \in Tasks, rq \in UsersRoutes : ReqStart(r, rq[1], rq[2], MaxUsersRequests)
    \/ \E r \in Tasks : ReqSnapshot(r)
    \/ \E r \in Tasks : GetHot(r)
    \/ \E r \in Tasks : GetMap(r)
    \/ \E r \in Tasks : FindExact(r)
    \/ \E r \in Tasks : FindScan(r)
    \/ \E r \in Tasks : SetHot(r)
    \/ \E r \in Tasks : SetLock(r)
    \/ \E r \in Tasks : SetInsert(r)
    \/ \E r \in Tasks : Execute(r)
    \/ \E r \in Tasks : NotFound(r)
    \/ \E r \in Tasks : Respond(r)

SpecUsers == Init /\ [][NextUsers]_vars

\* route_matches applied to a pattern key and a candidate key
InitMatch ==
    /\ routes = EmptyMap
    /\ routes_snapshot = EmptyMap
    /\ hot_slot = [s \in Shards |-> <<>>]
    /\ entries = [s \in Shards |-> EmptyMap]
    /\ lock = [s \in Shards |-> None]
    /\ hits = 0
    /\ misses = 0
    /\ pc = [p \in Procs |-> "idle"]
    /\ loc = [p \in Procs |-> IdleLoc]
    /\ obs = [r \in Tasks |-> IdleObs]
    /\ published = {}
    /\ registered = {}
    /\ fresh = [s \in Shards |-> <<>>]
    /\ nreq = 0
    /\ nreg = 0
    /\ nops = 0
    /\ pat \in PatternKeys
    /\ cand \in CandidateKeys
    /\ res = <<>>
    /\ BindingInit

Match ==
    /\ res = <<>>
    /\ res' = <<route_matches(pat, cand)>>
    /\ UNCHANGED <<routes, routes_snapshot, cacheVars, pc, loc, obs, published,
                   registered, nreq, nreg, nops, pat, cand, bindingVars,
                   listenVars>>

NextMatch == Match

SpecMatch == InitMatch /\ [][NextMatch]_vars

\* route_matches on keys of every shape: method prefixes "0", "1", "10",
\* keys without the ':' separator, paths of up to MaxSoundSegs segments
\* among "", "a", ":a" and, for candidates, a LongLen-byte segment
MaxSoundSegs == 2

SoundPaths(segSet) ==
    UNION {{JoinPath(f, 1) : f \in [1..n -> segSet]} : n \in 1..MaxSoundSegs}

SoundKeys(segSet) ==
    {m \o <<COLON>> \o p : m \in {<<48>>, <<49>>, <<49, 48>>}, p \in SoundPaths(segSet)}
        \cup {<<48>> \o p : p \in SoundPaths(segSet)}

InitSound ==
    /\ routes = EmptyMap
    /\ routes_snapshot = EmptyMap
    /\ hot_slot = [s \in Shards |-> <<>>]
    /\ entries = [s \in Shards |-> EmptyMap]
    /\ lock = [s \in Shards |-> None]
    /\ hits = 0
    /\ misses = 0
    /\ pc = [p \in Procs |-> "idle"]
    /\ loc = [p \in Procs |-> IdleLoc]
    /\ obs = [r \in Tasks |-> IdleObs]
    /\ published = {}
    /\ registered = {}
    /\ fresh = [s \in Shards |-> <<>>]
    /\ nreq = 0
    /\ nreg = 0
    /\ nops = 0
    /\ pat \in SoundKeys({<<>>, <<97>>, <<COLON, 97>>})
    /\ cand \in SoundKeys({<<>>, <<97>>, <<COLON, 97>>, LongSeg})
    /\ res = <<>>
    /\ BindingInit

SpecSound == InitSound /\ [][NextMatch]_vars

\* the server with GET /v -> H1 and GET /:p -> H2 registered on two racing
\* threads, serving GET /v and a request whose key collides with GET /v's
MaxCollideRequests == 2

\* stands for the path of a key with the hash of "0:/v"
PathTwin == <<SLASH, 118, 39>>

CollideRegister(t) ==
    LET h == IF t = "r1" THEN "H1" ELSE "H2"
    IN  /\ \A e \in registered : e[2] # h
        /\ RegInsert(t, "GET", IF t = "r1" THEN PathV ELSE PathParam, h)

NextCollide ==
    \/ \E t \in RegThreads : CollideRegister(t)
    \/ \E t \in RegThreads : RegLoad(t)
    \/ \E t \in RegThreads : RegStore(t)
    \/ \E r \in RaceTasks : ReqStart(r, "GET", PathV, MaxCollideRequests)
    \/ \E r \in RaceTasks :
          ArriveColliding(r, "GET", PathTwin, RouteKey("GET", PathV), MaxCollideRequests)
    \/ \E r \in RaceTasks : ReqSnapshot(r)
    \/ \E r \in RaceTasks : GetHot(r)
    \/ \E r \in RaceTasks : GetMap(r)
    \/ \E r \in RaceTasks : FindExact(r)
    \/ \E r \in RaceTasks : FindScan(r)
    \/ \E r \in RaceTasks : SetHot(r)
    \/ \E r \in RaceTasks : SetLock(r)
    \/ \E r \in RaceTasks : SetInsert(r)
    \/ \E r \in RaceTasks : Execute(r)
    \/ \E r \in RaceTasks : NotFound(r)
    \/ \E r \in RaceTasks : Respond(r)

SpecCollide == Init /\ [][NextCollide]_vars

(***************************************************************************)
(* Properties                                                              *)
(***************************************************************************)
\* the handlers ever registered under a route key
HandlersFor(k) == {e[2] : e \in {x \in registered : x[1] = k}}

\* the route keys a handler was ever registered under
KeysOf(h) == {e[1] : e \in {x \in registered : x[2] = h}}

\* a key "<digit>:<path>" whose path has no ':'
IsLiteral(k) == ~Contains(SubSeq(k, 3, Len(k)), COLON)

\* the wire response of a handler's ResponseData
ExecResponse(h) == build_response_fast(HandlerResult(h))

LastTier(r) == obs[r].trace[Len(obs[r].trace)]

TierNames == <<"snapshot", "hot_cache", "registry_exact", "registry_scan">>

\* C1: a request for a registered literal route, started after that
\* registration's snapshot publish, invokes the registered handler and
\* returns its response (the handler being the only one registered there).
C1_LiteralRouteDispatch ==
    \A r \in Tasks : pc[r] = "done" =>
        \A e \in obs[r].startPub :
            (e[1] = obs[r].route_key /\ IsLiteral(e[1]) /\ HandlersFor(e[1]) = {e[2]})
            => /\ obs[r].invoked = e[2]
               /\ obs[r].response = ExecResponse(e[2])

\* the tiers a request has consulted are a prefix of snapshot, hot cache,
\* registry exact, registry scan; every tier but the last one missed; the
\* resolved and the invoked handler are the last tier's answer
TierOrder(r) ==
    LET tr == obs[r].trace
    IN  /\ Len(tr) <= 4
        /\ \A i \in 1..Len(tr) :
              /\ tr[i][1] = TierNames[i]
              /\ i < Len(tr) => tr[i][2] = None
        /\ pc[r] \in {"set_hot", "set_lock", "set_insert", "execute"}
              => Len(tr) > 0 /\ tr[Len(tr)][2] # None /\ loc[r].handler = tr[Len(tr)][2]
        /\ pc[r] = "not_found" => Len(tr) = 4 /\ tr[4][2] = None
        /\ obs[r].invoked # None => Len(tr) > 0 /\ obs[r].invoked = tr[Len(tr)][2]
        /\ pc[r] = "done" =>
              (obs[r].invoked = None <=> (Len(tr) = 4 /\ tr[4][2] = None))

\* what a tier holds for the request when the request consults it
TierAnswer(r) ==
    LET hash == loc[r].route_hash
        s    == shard_index(hash)
    IN  CASE pc[r] = "snapshot" ->
               {IF hash \in DOMAIN routes_snapshot THEN routes_snapshot[hash] ELSE None}
          [] pc[r] = "get_hot" ->
               IF hot_slot[s] # <<>> /\ hot_slot[s][1].hash = hash
               THEN {hot_slot[s][1].entry.handler} ELSE {}
          [] pc[r] = "get_map" ->
               {IF hash \in DOMAIN entries[s] THEN entries[s][hash].handler ELSE None}
          [] pc[r] = "find_exact" ->
               {IF loc[r].route_key \in DOMAIN routes
                THEN routes[loc[r].route_key].handler ELSE None}
          [] pc[r] = "find_scan" ->
               IF MatchingRoutes(loc[r].route_key) = {} THEN {None}
               ELSE {routes[k].handler : k \in MatchingRoutes(loc[r].route_key)}
          [] OTHER -> {}

\* C2: dispatch consults snapshot, hot cache, registry exact, registry scan
\* in that order; a tier is consulted only after every earlier tier missed;
\* the answer a tier gives is what that tier holds, and the first hit is
\* the handler the request runs.
C2_TierOrder ==
    [][\A r \in Tasks :
          /\ TierOrder(r)'
          /\ Len(obs'[r].trace) = Len(obs[r].trace) + 1
                => obs'[r].trace[Len(obs'[r].trace)][2] \in TierAnswer(r)]_vars

C2_Witness ==
    \E r \in Tasks :
        /\ pc[r] = "done"
        /\ Len(obs[r].trace) = 2
        /\ obs[r].invoked # None
        /\ obs[r].route_key \in DOMAIN routes
        /\ routes[obs[r].route_key].handler # obs[r].invoked

\* the hot cache answers `hash` with handler h
CacheHolds(hash, h) ==
    LET s == shard_index(hash)
    IN  \/ hot_slot[s] # <<>> /\ hot_slot[s][1].hash = hash /\ hot_slot[s][1].entry.handler = h
        \/ hash \in DOMAIN entries[s] /\ entries[s][hash].handler = h

\* C3: a request resolved at the registry stage has written (hash ->
\* handler) into the hot cache when it reaches the handler call; and while
\* no later set has begun in that shard, a get for that hash never misses,
\* so the request does not reach the registry.
C3_RegistryHitIsCached ==
    [][\A r \in Tasks :
          /\ (pc[r] # "execute" /\ pc'[r] = "execute"
                /\ LastTier(r)'[1] \in {"registry_exact", "registry_scan"})
                => /\ obs'[r].did_set
                   /\ CacheHolds(loc[r].route_hash, loc[r].handler)'
          /\ (pc[r] \in {"get_hot", "get_map"} /\ pc'[r] = "find_exact")
                => fresh[shard_index(loc[r].route_hash)] # loc[r].route_hash
          /\ \A s \in Shards : fresh'[s] # <<>> => fresh'[s] \in DOMAIN entries'[s]]_vars

C3_Witness ==
    \E r \in Tasks :
        /\ pc[r] = "done"
        /\ Len(obs[r].trace) = 2
        /\ obs[r].trace[2][1] = "hot_cache"
        /\ obs[r].invoked = obs[r].trace[2][2]
        /\ obs[r].invoked # None

\* C4: a request that no tier resolves invokes no handler and is answered
\* 404 with the body {"error":"Not Found"}.
C4_NotFound ==
    \A r \in Tasks :
        (pc[r] = "done" /\ \A i \in 1..Len(obs[r].trace) : obs[r].trace[i][2] = None)
        => /\ obs[r].invoked = None
           /\ obs[r].response.status = 404
           /\ obs[r].response.body = NOTFOUND_BYTES
           /\ obs[r].response.content_length = Len(NOTFOUND_BYTES)

C4_Witness ==
    \E r \in Tasks :
        /\ pc[r] = "done"
        /\ Len(obs[r].trace) = 4
        /\ obs[r].trace[4][2] = None
        /\ obs[r].response.status = 404

\* the path of a key "<digit>:<path>", split on '/'
Segments(k) == Split(SubSeq(k, Position(k, COLON) + 1, Len(k)), SLASH)

IsParam(seg) == seg # <<>> /\ seg[1] = COLON

SamePrefix(p, c) ==
    /\ Position(p, COLON) = Position(c, COLON)
    /\ SubSeq(p, 1, Position(p, COLON)) = SubSeq(c, 1, Position(c, COLON))

\* same method prefix, same segment count, literal segments equal,
\* parameter segments non-empty
Conforms(p, c) ==
    /\ SamePrefix(p, c)
    /\ Len(Segments(p)) = Len(Segments(c))
    /\ \A i \in 1..Len(Segments(p)) :
          IF IsParam(Segments(p)[i]) THEN Segments(c)[i] # <<>>
          ELSE Segments(p)[i] = Segments(c)[i]

\* some candidate segment at a parameter position is empty
EmptyParam(p, c) ==
    \E i \in 1..Len(Segments(p)) :
        i <= Len(Segments(c)) /\ IsParam(Segments(p)[i]) /\ Segments(c)[i] = <<>>

\* C5: route_matches accepts every candidate that conforms to the pattern,
\* whatever the length of the parameter values, and rejects every
\* candidate with an empty parameter segment.
C5_MatcherAccepts ==
    res # <<>> =>
        /\ Conforms(pat, cand) => res = <<TRUE>>
        /\ EmptyParam(pat, cand) => res = <<FALSE>>

UsersKey      == RouteKey("GET", PathUsersId)
Users42Key    == RouteKey("GET", PathUsers42)
UsersEmptyKey == RouteKey("GET", PathUsersEmpty)

\* C6: with only GET /users/:id -> H1 registered, GET /users/42 invokes H1
\* with params absent and returns its response, and GET /users/ is answered
\* 404 without invoking a handler, on the first and on every later request.
C6_UsersScenario ==
    \A r \in Tasks :
        (pc[r] = "done" /\ <<UsersKey, "H1">> \in obs[r].startPub)
        => /\ obs[r].route_key = Users42Key
                => /\ obs[r].invoked = "H1"
                   /\ obs[r].opts.params = None
                   /\ obs[r].response = ExecResponse("H1")
           /\ obs[r].route_key = UsersEmptyKey
                => /\ obs[r].invoked = None
                   /\ obs[r].response.status = 404
                   /\ obs[r].response.body = NOTFOUND_BYTES

\* a repeat of GET /users/42 served from the hot cache, after a GET /users/
C6_Witness ==
    /\ misses >= 2
    /\ \E r \in Tasks :
          /\ pc[r] = "done"
          /\ obs[r].route_key = Users42Key
          /\ <<UsersKey, "H1">> \in obs[r].startPub
          /\ Len(obs[r].trace) = 2
          /\ obs[r].invoked = "H1"

\* C7: a dispatch that loaded the snapshot before a registration was
\* published does not resolve to the newly registered route; a dispatch
\* started after the publish does.
C7_SnapshotIsolation ==
    \A r \in Tasks : pc[r] = "done" =>
        \A e \in registered :
            e[1] = obs[r].route_key =>
              /\ (e \notin obs[r].loadPub /\ KeysOf(e[2]) = {e[1]})
                    => obs[r].invoked # e[2]
              /\ (e \in obs[r].startPub /\ HandlersFor(e[1]) = {e[2]})
                    => obs[r].invoked = e[2]

\* the handlers a dispatch of key k started in this state can resolve to
ResolveSet(k) ==
    LET hash == fast_hash(k)
        s    == shard_index(hash)
    IN  IF hash \in DOMAIN routes_snapshot THEN {routes_snapshot[hash]}
        ELSE IF hot_slot[s] # <<>> /\ hot_slot[s][1].hash = hash
             THEN {hot_slot[s][1].entry.handler}
        ELSE IF hash \in DOMAIN entries[s] THEN {entries[s][hash].handler}
        ELSE IF k \in DOMAIN routes THEN {routes[k].handler}
        ELSE IF MatchingRoutes(k) = {} THEN {None}
        ELSE {routes[j].handler : j \in MatchingRoutes(k)}

\* C8: once a registration is published, its key stays resolvable to a
\* handler registered for that key, in every later state.
C8_PublishedStaysVisible ==
    \A e \in published : ResolveSet(e[1]) \subseteq HandlersFor(e[1])

\* C9: a set of a hash absent from a full shard map removes exactly one
\* entry, one whose access count was minimal in the map, never the new one.
C9_EvictsOneLfu ==
    [][\A p \in Procs :
          (pc[p] = "set_insert" /\ pc'[p] # "set_insert")
          => LET hash == loc[p].route_hash
                 s    == shard_index(hash)
                 m    == entries[s]
             IN  (hash \notin DOMAIN m /\ Cardinality(DOMAIN m) = MAX_ENTRIES_PER_SHARD)
                 => /\ hash \in DOMAIN entries'[s]
                    /\ Cardinality(DOMAIN entries'[s]) = MAX_ENTRIES_PER_SHARD
                    /\ \E v \in DOMAIN m :
                          /\ DOMAIN entries'[s] = ((DOMAIN m) \ {v}) \cup {hash}
                          /\ \A j \in DOMAIN m : m[v].access_count <= m[j].access_count]_vars

\* a shard map that is full after an eviction, one survivor touched twice
C9_Witness ==
    \E s \in Shards :
        /\ Cardinality(DOMAIN entries[s]) = MAX_ENTRIES_PER_SHARD
        /\ nops > MAX_ENTRIES_PER_SHARD + 1
        /\ \E k \in CacheKeys : fast_hash(k) \notin DOMAIN entries[s]
                                  /\ shard_index(fast_hash(k)) = s
        /\ \E j \in DOMAIN entries[s] : entries[s][j].access_count >= 2
        /\ fresh[s] # <<>>

\* C10: every shard map holds at most MAX_ENTRIES_PER_SHARD entries in
\* every state, and one set removes at most one entry that was there.
C10_ShardBounded ==
    [][/\ \A s \in Shards : Cardinality(DOMAIN entries'[s]) <= MAX_ENTRIES_PER_SHARD
       /\ \A p \in Procs :
             (pc[p] = "set_insert" /\ pc'[p] # "set_insert")
             => \A s \in Shards :
                   Cardinality((DOMAIN entries[s]) \ (DOMAIN entries'[s])) <= 1]_vars

\* a full shard map while the other thread is in the middle of a call
C10_Witness ==
    \E s \in Shards :
        /\ Cardinality(DOMAIN entries[s]) = MAX_ENTRIES_PER_SHARD
        /\ \E p \in CacheThreads : pc[p] = "set_insert" /\ shard_index(loc[p].route_hash) = s
        /\ \E q \in CacheThreads : loc[q].op \in {"clear", "get_or_insert", "get"}

\* the (hash, handler) pair a shard's hot slot holds
HotPair(s) ==
    IF hot_slot[s] = <<>> THEN <<>>
    ELSE <<hot_slot[s][1].hash, hot_slot[s][1].entry.handler>>

\* the handlers a shard's map holds, by hash
MapHandlers(s) == [k \in DOMAIN entries[s] |-> entries[s][k].handler]

\* C11: a step of HotCache::get leaves every hot slot's (hash, handler)
\* pair, every shard map's keys and handlers and every lock as they were,
\* and the get returns what the slot or the map holds for the hash; so gets
\* of one key with no set or clear in between return the same handler.
C11_GetIdempotent ==
    [][\A p \in Procs :
          (pc[p] \in {"get_hot", "get_map"} /\ pc'[p] # pc[p])
          => LET hash == loc[p].route_hash
                 s    == shard_index(hash)
             IN  /\ \A x \in Shards : HotPair(x)' = HotPair(x)
                                        /\ MapHandlers(x)' = MapHandlers(x)
                 /\ lock' = lock
                 /\ pc[p] = "get_hot" =>
                       IF HotPair(s) # <<>> /\ HotPair(s)[1] = hash
                       THEN pc'[p] # "get_map" /\ loc'[p].handler = HotPair(s)[2]
                       ELSE pc'[p] = "get_map"
                 /\ pc[p] = "get_map" =>
                       loc'[p].handler = IF hash \in DOMAIN entries[s]
                                         THEN MapHandlers(s)[hash] ELSE None]_vars

\* two gets were answered by a shard map entry that is not in the hot slot
C11_Witness ==
    \E s \in Shards : \E k \in DOMAIN entries[s] :
        /\ entries[s][k].access_count >= 3
        /\ HotPair(s) # <<>>
        /\ HotPair(s)[1] # k
        /\ hits >= 2

\* the shard a thread's pending cache step works on
ShardOf(p) ==
    IF pc[p] \in {"clear_hot", "clear_lock", "clear_entries"} THEN loc[p].idx
    ELSE shard_index(loc[p].route_hash)

\* the pending cache step of thread p can be taken now
CanStep(p) ==
    \/ ENABLED GetHot(p)
    \/ ENABLED GetMap(p)
    \/ ENABLED SetHot(p)
    \/ ENABLED SetLock(p)
    \/ ENABLED SetInsert(p)
    \/ ENABLED ClearHot(p)
    \/ ENABLED ClearLock(p)
    \/ ENABLED ClearEntries(p)
    \/ \E h \in {"H1", None} : ENABLED Factory(p, h)

\* C12: the hot-slot step of a get can always be taken, whoever holds the
\* shard lock; a thread inside a cache call waits only at a step that takes
\* a shard map's lock, and only while the lock of its own shard is held.
C12_HotPathLockFree ==
    \A p \in CacheThreads :
        /\ pc[p] = "get_hot" => ENABLED GetHot(p)
        /\ (pc[p] # "idle" /\ ~CanStep(p))
              => /\ pc[p] \in {"get_map", "set_lock", "clear_lock"}
                 /\ lock[ShardOf(p)] # None
        /\ (pc[p] \in {"get_map", "set_lock", "clear_lock"} /\ lock[ShardOf(p)] = None)
              => CanStep(p)

\* a get about to hit the hot slot of a shard whose lock another thread holds
C12_Witness ==
    \E p \in CacheThreads :
        /\ pc[p] = "get_hot"
        /\ HotPair(ShardOf(p)) # <<>>
        /\ HotPair(ShardOf(p))[1] = loc[p].route_hash
        /\ lock[ShardOf(p)] \in CacheThreads \ {p}

\* some thread is inside a set on shard s
SetInProgress(s) ==
    \E p \in Procs : /\ pc[p] \in {"set_hot", "set_lock", "set_insert"}
                      /\ shard_index(loc[p].route_hash) = s

\* C13: while no set is in progress on a shard, the shard's hot slot holds
\* the (hash, handler) pair of the last insert into the shard's map.
C13_HotSlotIsLastInserted ==
    \A s \in Shards :
        (fresh[s] # <<>> /\ ~SetInProgress(s))
        => HotPair(s) = <<fresh[s], entries[s][fresh[s]].handler>>

\* thread p returns from a successful get of `hash` in this step
GetHit(p, hash) ==
    /\ pc[p] \in {"get_hot", "get_map"}
    /\ loc[p].route_hash = hash
    /\ pc'[p] \notin {"get_hot", "get_map"}
    /\ loc'[p].handler # None

\* C14: the access count eviction reads (the shard map entry's) starts at
\* 1 on insertion, grows by one with every successful get of the key, from
\* the hot slot or from the map, never decreases while the key stays in
\* the map, and an entry leaves the map only by eviction or clear.
C14_AccessCount ==
    [][\A s \in Shards :
          /\ \A k \in DOMAIN entries[s] :
                IF k \in DOMAIN entries'[s]
                THEN /\ entries'[s][k].access_count >= entries[s][k].access_count
                     /\ \A p \in Procs : GetHit(p, k) =>
                           entries'[s][k].access_count = entries[s][k].access_count + 1
                ELSE \E p \in Procs : /\ pc[p] \in {"set_insert", "clear_entries"}
                                       /\ pc'[p] # pc[p]
          /\ \A k \in (DOMAIN entries'[s]) \ (DOMAIN entries[s]) :
                entries'[s][k].access_count = 1]_vars

\* C15: a register_route step never touches the hot cache; its registry
\* insert puts the new handler under the key, whatever was there, and
\* leaves the other keys alone; and a hot-cache hit hands the request the
\* handler the cache holds, whatever the registry holds by then.
C15_ReregisterKeepsCache ==
    [][/\ \A t \in RegThreads :
             (pc[t] \in {"idle", "reg_load", "reg_store"} /\ pc'[t] # pc[t])
             => /\ hot_slot' = hot_slot
                /\ entries' = entries
                /\ pc[t] = "idle" =>
                      LET k == loc'[t].route_key
                      IN  /\ DOMAIN routes' = (DOMAIN routes) \cup {k}
                          /\ routes'[k].handler = loc'[t].handler
                          /\ \A j \in (DOMAIN routes) \ {k} : routes'[j] = routes[j]
       /\ \A r \in Tasks :
             (pc[r] \in {"get_hot", "get_map"} /\ pc'[r] = "execute")
             => loc'[r].handler \in TierAnswer(r)]_vars

\* a request started after GET /:p was registered again with H1 that ran
\* H2 from the hot cache, H2 being nowhere in the registry any more
C15_Witness ==
    \E r \in Tasks :
        /\ pc[r] = "done"
        /\ <<RouteKey("GET", PathParam), "H1">> \in obs[r].startPub
        /\ routes[RouteKey("GET", PathParam)].handler = "H1"
        /\ Len(obs[r].trace) = 2
        /\ obs[r].invoked = "H2"

\* C16: a request with a method outside the five supported ones is
\* answered with a 4xx response; its dispatch never ends in a panic.
C16_UnsupportedMethodIs4xx ==
    \A r \in Tasks :
        /\ pc[r] # "panicked"
        /\ (pc[r] = "done" /\ obs[r].method \notin Methods)
              => obs[r].response.status \in 400..499

BodyMethods == {"POST", "PUT", "PATCH"}

\* the request body can be read, has at least 2 bytes and is one JSON value
BodyDecodes(body) == body # ReadError /\ Len(body) >= 2 /\ JsonDecode(body) # <<>>

\* the content-type header is present and begins with "application/json"
JsonPrefixed(content_type) ==
    /\ content_type # <<>>
    /\ Len(content_type[1]) >= Len(CONTENT_TYPE_JSON_BYTES)
    /\ \A i \in 1..Len(CONTENT_TYPE_JSON_BYTES) :
          content_type[1][i] = CONTENT_TYPE_JSON_BYTES[i]

Resolved(r) == \E i \in 1..Len(obs[r].trace) : obs[r].trace[i][2] # None

\* C19: for a resolved POST, PUT or PATCH request whose content-type is
\* missing or not JSON, or whose body is shorter than 2 bytes, unreadable or
\* not JSON, the handler is invoked exactly once with body absent and the
\* response is the handler's own.
C19_ParseFailureStillCallsHandler ==
    \A r \in Tasks :
        /\ obs[r].calls <= 1
        /\ (/\ pc[r] = "done"
            /\ Resolved(r)
            /\ obs[r].method \in BodyMethods
            /\ ~(JsonPrefixed(obs[r].content_type) /\ BodyDecodes(obs[r].body)))
           => /\ obs[r].calls = 1
              /\ obs[r].invoked = obs[r].trace[Len(obs[r].trace)][2]
              /\ obs[r].opts.body = <<>>
              /\ obs[r].response = ExecResponse(obs[r].invoked)

\* a PUT with content-type text/plain and a JSON body, answered by H1
C19_Witness ==
    \E r \in Tasks :
        /\ pc[r] = "done"
        /\ obs[r].method = "PUT"
        /\ obs[r].content_type # <<>>
        /\ ~JsonPrefixed(obs[r].content_type)
        /\ BodyDecodes(obs[r].body)
        /\ obs[r].invoked = "H1"
        /\ obs[r].response.status = 200

\* the core route keys of the supported methods
SupportedKeys(path) == {RouteKey(m, path) : m \in Methods}

\* C17: a binding register_route call whose method is outside
\* GET/POST/PUT/DELETE/PATCH in every letter case returns, at its match, the
\* error "Unsupported method: <method>" without panicking and without
\* changing the core registry or the core snapshot; calls with a supported
\* method in any letter case return Ok; so the registry and the snapshot
\* only ever hold routes of the five methods.
C17_UnsupportedMethodRejected ==
    [][\A t \in RegThreads :
          (pc[t] = "napi_match" /\ pc'[t] # "napi_match")
          => IF MethodArm(ToUpper(nloc[t].method)) = "_"
             THEN /\ pc'[t] = "idle"
                  /\ napi_out'[t] = <<"Err", UNSUPPORTED_BYTES \o nloc[t].method>>
                  /\ routes' = routes
                  /\ routes_snapshot' = routes_snapshot
                  /\ registered' = registered
             ELSE /\ napi_out'[t] = <<"Ok">>
                  /\ DOMAIN routes' \subseteq SupportedKeys(nloc[t].path) \cup DOMAIN routes
                  /\ RouteKey(MethodArm(ToUpper(nloc[t].method)), nloc[t].path)
                        \in DOMAIN routes']_vars

\* "head" was rejected on one thread while "get" is registered in the core
C17_Witness ==
    \E t \in RegThreads, u \in RegThreads :
        /\ napi_out[t] = UnsupportedMethod(NapiHead)
        /\ pc[t] = "idle"
        /\ napi_out[u] = <<"Ok">>
        /\ DOMAIN routes = {RouteKey("GET", PathV)}
        /\ DOMAIN routes_snapshot = {fast_hash(RouteKey("GET", PathV))}

\* the ResponseData of a callback result
ResponseOf(result) == [data |-> result.data, status_code |-> result.status]

\* C20: a finished invoke_callback_fast call returned exactly one of: 404
\* {"error":"Route not found"} when no callback was stored for its hash;
\* the result of its own callback on its own data when that was sent on its
\* channel; 504 {"error":"Callback timeout"} when nothing was delivered
\* before the wait expired; 500 {"error":"Callback failed"} when the sender
\* was dropped without sending.  A result sent after the receiver is gone
\* is dropped: no channel without a receiver holds a value.
C20_InvokeOutcomes ==
    /\ \A r \in Tasks :
          (pc[r] = "idle" /\ outcome[r] # <<>>)
          => LET o == outcome[r][1]
                 c == cur[r]
             IN  IF c.entry = None
                 THEN /\ c.route_hash \notin DOMAIN callbacks
                      /\ o = [data |-> ERROR_ROUTE_NOT_FOUND, status_code |-> 404]
                 ELSE CASE chans[c.id].send = "ok" ->
                             o = ResponseOf(CallbackResult(c.entry, c.js_data))
                        [] chans[c.id].send = "err" ->
                             o = [data |-> ERROR_TIMEOUT, status_code |-> 504]
                        [] OTHER ->
                             \/ o = [data |-> ERROR_TIMEOUT, status_code |-> 504]
                             \/ /\ o = [data |-> ERROR_CALLBACK_FAILED, status_code |-> 500]
                                /\ ~chans[c.id].tx
    /\ \A id \in DOMAIN chans : ~chans[id].rx => chans[id].value = <<>>
    /\ \A r \in Tasks : pc[r] = "inv_wait" => outcome[r] = <<>>

\* one task timed out and its callback's result came late and was dropped,
\* while the other task got its own callback's result
C20_Witness ==
    \E r \in Tasks, u \in Tasks :
        /\ r # u
        /\ pc[r] = "idle" /\ pc[u] = "idle"
        /\ outcome[r] = <<[data |-> ERROR_TIMEOUT, status_code |-> 504]>>
        /\ chans[cur[r].id].send = "err"
        /\ cur[u].id > cur[r].id
        /\ cur[u].entry # None
        /\ cur[u].js_data # cur[r].js_data
        /\ outcome[u] = <<ResponseOf(CallbackResult(cur[u].entry, cur[u].js_data))>>

\* C21: listen returns an error only from one of its startup calls; once in
\* the accept loop it never returns, whatever happens to a connection or
\* an accept.
C21_OnlyStartupErrorsEndListen ==
    /\ listen_out # <<>> => \E i \in 1..Len(StartupSteps) : listen_out[2] = StartupSteps[i]
    /\ listen_pc = "returned" => listen_out # <<>>

\* the bytes of a key before its first ':' and after it
KeyMethod(k) == SubSeq(k, 1, Position(k, COLON) - 1)

KeyPath(k) == SubSeq(k, Position(k, COLON) + 1, Len(k))

\* C22: whenever route_matches accepts, both keys have a ':' and the same
\* bytes before the first one, their paths have the same number of
\* segments, each pattern segment not starting with ':' equals the
\* candidate's segment, each candidate segment under a ':' segment is
\* non-empty unless the paths are identical, a pattern path without ':' is
\* identical to the candidate path, and the key lengths differ by at most
\* 50 bytes.
C22_MatcherSound ==
    res = <<TRUE>> =>
        LET ps == Split(KeyPath(pat), SLASH)
            cs == Split(KeyPath(cand), SLASH)
        IN  /\ Position(pat, COLON) # 0
            /\ Position(cand, COLON) # 0
            /\ KeyMethod(pat) = KeyMethod(cand)
            /\ Len(ps) = Len(cs)
            /\ \A i \in 1..Len(ps) : ~IsParam(ps[i]) => ps[i] = cs[i]
            /\ KeyPath(pat) # KeyPath(cand)
                  => \A i \in 1..Len(ps) : IsParam(ps[i]) => cs[i] # <<>>
            /\ ~Contains(KeyPath(pat), COLON) => KeyPath(pat) = KeyPath(cand)
            /\ AbsDiff(Len(pat), Len(cand)) <= 50

\* "10:/:a/a" accepted "10:/a/a": a parameter over a different segment
C22_Witness ==
    /\ res = <<TRUE>>
    /\ KeyMethod(pat) = <<49, 48>>
    /\ KeyPath(pat) # KeyPath(cand)
    /\ Len(Split(KeyPath(pat), SLASH)) = 3
    /\ IsParam(Split(KeyPath(pat), SLASH)[2])

TwinKey == RouteKey("GET", PathTwin)

TwinOf == RouteKey("GET", PathV)

\* the request of task r is for the key colliding with GET /v
IsTwin(r) == loc[r].route_key = TwinKey /\ loc[r].route_hash = fast_hash(TwinOf)

\* C23: a request whose key k2 has the hash of another key k1 is answered
\* by hash alone: when the snapshot holds k1's hash the snapshot lookup
\* hits with the handler registered for k1, when the hot slot or the shard
\* map holds it the hot-cache lookup hits with the handler cached for k1
\* (the one a request for k1 resolved to); after such a hit
\* the request goes straight to the handler call, which invokes that
\* handler, and the registry is not consulted.
C23_HashIsIdentity ==
    [][\A r \in Tasks :
          IsTwin(r) =>
             LET hash == fast_hash(TwinOf)
                 s == shard_index(hash)
             IN  /\ (pc[r] = "snapshot" /\ pc'[r] # "snapshot"
                        /\ hash \in DOMAIN routes_snapshot)
                    => /\ pc'[r] = "execute"
                       /\ loc'[r].handler = routes_snapshot[hash]
                       /\ loc'[r].handler \in HandlersFor(TwinOf)
                 /\ (pc[r] = "get_hot" /\ pc'[r] # "get_hot"
                        /\ hot_slot[s] # <<>> /\ hot_slot[s][1].hash = hash)
                    => /\ pc'[r] = "execute"
                       /\ loc'[r].handler = hot_slot[s][1].entry.handler
                 /\ (pc[r] = "get_map" /\ pc'[r] # "get_map"
                        /\ hash \in DOMAIN entries[s])
                    => /\ pc'[r] = "execute"
                       /\ loc'[r].handler = entries[s][hash].handler
                 /\ (pc[r] = "execute" /\ pc'[r] # "execute"
                        /\ LastTier(r)[1] \in {"snapshot", "hot_cache"})
                    => /\ obs'[r].invoked = loc[r].handler
                       /\ obs'[r].response = ExecResponse(loc[r].handler)
                       /\ \A i \in 1..Len(obs[r].trace) :
                             obs[r].trace[i][1] \notin {"registry_exact", "registry_scan"}
      ]_vars

\* the colliding request was answered with H1 from the snapshot
C23_Witness ==
    \E r \in Tasks :
        /\ pc[r] = "done"
        /\ IsTwin(r)
        /\ obs[r].trace = <<<<"snapshot", "H1">>>>
        /\ obs[r].invoked = "H1"

\* thread t publishes the map it built in CallbackStore::insert
StoreStep(t) == pc[t] = "napi_store" /\ pc'[t] # "napi_store"

\* C24: inserts are serialized by the write lock and lose nothing: only
\* the lock holder clones and publishes; a publish is the current snapshot
\* plus the inserted entry, so every earlier entry stays and a hash
\* inserted again holds the entry of the insert that took the lock last;
\* nothing but a publish changes the snapshot; and get takes no lock: it
\* can run while an insert holds the lock and leaves the lock alone.
C24_InsertsSerialized ==
    /\ [](\A t \in RegThreads : pc[t] \in {"napi_clone", "napi_store"} <=> write_lock = t)
    /\ [](\A r \in RaceTasks, h \in StoreHashes :
             (pc[r] = "idle" /\ ninv < MaxStoreGets) => ENABLED StoreGet(r, h))
    /\ [][/\ \A t \in RegThreads :
                StoreStep(t)
                => callbacks' = MapInsert(callbacks, nloc[t].route_hash, nloc[t].callback)
          /\ callbacks' # callbacks => \E t \in RegThreads : StoreStep(t)
          /\ DOMAIN callbacks \subseteq DOMAIN callbacks'
          /\ cur' # cur => write_lock' = write_lock /\ callbacks' = callbacks
       ]_vars

\* one hash is stored, r2 holds the lock and is about to publish the other
\* hash, r1 waits for the lock, and a get found an entry
C24_Witness ==
    /\ DOMAIN callbacks # {}
    /\ nloc["r2"].route_hash \notin DOMAIN callbacks
    /\ write_lock = "r2"
    /\ pc["r2"] = "napi_store"
    /\ pc["r1"] = "napi_lock"
    /\ \E r \in RaceTasks : cur[r].entry # None

\* no register_route call is in progress
NoRegistration == \A t \in RegThreads : pc[t] = "idle"

\* C25: once every register_route call has returned, the snapshot holds
\* the key hash of every route in the registry.
C25_SnapshotCoversRegistry ==
    NoRegistration => \A k \in DOMAIN routes : fast_hash(k) \in DOMAIN routes_snapshot

\* C26: while no register_route call is in progress, every route key of
\* the registry has its hash in the snapshot, mapped to the handler the
\* registry holds for the key.
C26_RegistryAgreesWithSnapshot ==
    NoRegistration =>
        \A k \in DOMAIN routes :
            /\ fast_hash(k) \in DOMAIN routes_snapshot
            /\ routes_snapshot[fast_hash(k)] = routes[k].handler

\* C27: the handler a request invokes was registered, by the time it is
\* invoked, under a key with the request's method id whose path is the
\* request's path or a pattern that route_matches accepts for it; and a
\* handler a lookup resolved was registered by the time of that lookup.
C27_InvokedWasRegistered ==
    \A r \in Tasks :
        /\ obs[r].invoked # None
              => \E e \in registered :
                    /\ e[2] = obs[r].invoked
                    /\ KeyMethod(e[1]) = <<48 + MethodId(obs[r].method)>>
                    /\ \/ e[1] = obs[r].route_key
                       \/ route_matches(e[1], obs[r].route_key)
        /\ \A i \in 1..Len(obs[r].trace) :
              obs[r].trace[i][2] # None
              => \E e \in registered :
                    /\ e[2] = obs[r].trace[i][2]
                    /\ \/ e[1] = obs[r].route_key
                       \/ route_matches(e[1], obs[r].route_key)

\* GET /v invoked H2, registered under GET /:p, while POST /v -> H1 is
\* registered under the same path
C27_Witness ==
    \E r \in Tasks :
        /\ pc[r] = "done"
        /\ obs[r].route_key = RouteKey("GET", PathV)
        /\ obs[r].invoked = "H2"
        /\ <<RouteKey("POST", PathV), "H1">> \in published

\* what the hot cache maps: per shard the hot slot's (hash, handler) and the
\* map's hash -> handler, access counts left out
CacheContent ==
    [s \in Shards |->
        [slot |-> IF hot_slot[s] = <<>> THEN <<>>
                  ELSE <<hot_slot[s][1].hash, hot_slot[s][1].entry.handler>>,
         map  |-> [h \in DOMAIN entries[s] |-> entries[s][h].handler]]]

\* C28: a step of a request never changes the registry or the snapshot;
\* it changes what the hot cache maps, or takes a shard lock, only inside
\* the set that follows a registry hit; a snapshot hit goes straight to
\* the handler call; outside the hot-cache get and that set the hot cache
\* and its counters are untouched; a get that misses moves nothing but the
\* miss counter, a get that hits only an access count and the hit counter.
\* So a request answered 404 has inserted nothing.
C28_CacheWrittenOnRegistryHitOnly ==
    /\ [](\A r \in Tasks :
             /\ obs[r].did_set
                   => LastTier(r)[1] \in {"registry_exact", "registry_scan"}
                      /\ LastTier(r)[2] # None
             /\ (pc[r] = "done" /\ obs[r].invoked = None) => ~obs[r].did_set)
    /\ [][\A r \in Tasks :
             pc'[r] # pc[r] =>
                /\ routes' = routes
                /\ routes_snapshot' = routes_snapshot
                /\ (CacheContent' # CacheContent \/ lock' # lock)
                      => /\ pc[r] \in {"set_hot", "set_lock", "set_insert"}
                         /\ LastTier(r)[1] \in {"registry_exact", "registry_scan"}
                         /\ LastTier(r)[2] # None
                /\ (pc[r] = "snapshot" /\ loc[r].route_hash \in DOMAIN routes_snapshot)
                      => pc'[r] = "execute"
                /\ pc[r] \notin {"get_hot", "get_map", "set_hot", "set_lock", "set_insert"}
                      => UNCHANGED cacheVars
                /\ pc[r] \in {"get_hot", "get_map"}
                      => IF pc'[r] = "execute"
                         THEN hits' = hits + 1 /\ misses' = misses
                         ELSE /\ UNCHANGED <<hot_slot, entries, hits>>
                              /\ misses' = IF pc[r] = "get_map" THEN misses + 1
                                           ELSE misses
       ]_vars

\* POST /6 was answered 404 after GET /:p was published: one miss counted,
\* nothing cached
C28_Witness ==
    \E r \in Tasks :
        /\ pc[r] = "done"
        /\ obs[r].response = not_found_response
        /\ Len(obs[r].trace) = 4
        /\ published # {}
        /\ misses = 1
        /\ \A s \in Shards : hot_slot[s] = <<>> /\ entries[s] = EmptyMap

\* C29: a request with a supported method ends with exactly one response:
\* the response is written once, on completion; a handler is invoked only
\* after a tier has returned it, it is that tier's handler, it is invoked
\* once and its result is the response; when no tier resolves a handler,
\* none is invoked and the response is the 404; and every request that
\* has arrived gets to its response.
C29_OneResponseOneCall ==
    /\ [](\A r \in RaceTasks :
             /\ obs[r].calls <= 1
             /\ obs[r].calls = 1 <=> obs[r].invoked # None
             /\ obs[r].invoked # None
                   => Resolved(r) /\ obs[r].invoked = LastTier(r)[2]
             /\ pc[r] # "done" => obs[r].response = NoResponse
             /\ pc[r] = "done"
                   => IF Resolved(r)
                      THEN /\ obs[r].calls = 1
                           /\ obs[r].response = ExecResponse(obs[r].invoked)
                      ELSE /\ obs[r].calls = 0
                           /\ obs[r].response = not_found_response)
    /\ \A r \in RaceTasks : pc[r] = "snapshot" ~> pc[r] = "done"

\* the task's second request is answered 404 without a handler call, its
\* first one having been resolved at the registry and cached
C29_Witness ==
    \E r \in RaceTasks :
        /\ pc[r] = "done"
        /\ nreq = 2
        /\ obs[r].response = not_found_response
        /\ obs[r].calls = 0
        /\ \E s \in Shards : entries[s] # EmptyMap

\* C30: register_route calls that fail on an unsupported method leave the
\* callback store as it was, so the store, empty at first, never holds an
\* entry under the key of an unsupported method.
C30_RejectedCallStoresNothing ==
    \A m \in NapiMethods :
        MethodArm(ToUpper(m)) = "_" => fast_hash(NapiKey(m, PathV)) \notin DOMAIN callbacks

\* the shards whose write guard p holds
HeldBy(p) == {s \in Shards : lock[s] = p}

\* p is inside a cache call and its next step needs a shard lock it does not hold
WaitsForLock(p) ==
    \/ pc[p] \in {"set_lock", "get_map"} /\ lock[shard_index(loc[p].route_hash)] # p
    \/ pc[p] = "clear_lock" /\ lock[loc[p].idx] # p

\* C31: no thread or task ever holds more than one shard lock; the holder
\* of a shard lock is not waiting for a lock and its next step (the map
\* update that drops the guard) can always be taken; and under fair
\* scheduling every get, set, get_or_insert and clear call returns and the
\* request's dispatch reaches its response, whatever the interleaving with
\* the other cache calls and with the registration.
C31_CacheCallsTerminate ==
    /\ [](\A p \in Procs :
             /\ Cardinality(HeldBy(p)) <= 1
             /\ HeldBy(p) # {}
                   => /\ ~WaitsForLock(p)
                      /\ p \in LiveThreads => ENABLED CacheStep(p)
                      /\ p \in RaceTasks => ENABLED RequestStep(p))
    /\ \A p \in LiveThreads : pc[p] # "idle" ~> pc[p] = "idle"
    /\ \A r \in RaceTasks : pc[r] = "snapshot" ~> pc[r] = "done"

\* the request's set waits for the write lock of its shard, which a clear
\* holds, while the registration is between its load and its store
C31_Witness ==
    \E r \in RaceTasks, p \in LiveThreads :
        /\ pc[r] = "set_lock"
        /\ WaitsForLock(r)
        /\ lock[shard_index(loc[r].route_hash)] = p
        /\ loc[p].op = "clear"
        /\ pc[p] = "clear_entries"
        /\ pc["r1"] # "idle"

\* C32: while no set is in progress on a shard, a hash that is both in the
\* shard's hot slot and in its map has the same handler in both, so a get
\* answers with the handler of the latest completed set whichever of the
\* two it reads.
C32_SlotAgreesWithMap ==
    \A s \in Shards :
        (/\ ~SetInProgress(s)
         /\ hot_slot[s] # <<>>
         /\ HotPair(s)[1] \in DOMAIN entries[s])
        => MapHandlers(s)[HotPair(s)[1]] = HotPair(s)[2]

\* C33: a set of a hash that is already in a full shard map replaces that
\* hash's entry and evicts no other key: the map holds the same hashes
\* after the call as before it.
C33_ResetKeepsOtherKeys ==
    [][\A p \in Procs :
          (pc[p] = "set_insert" /\ pc'[p] # "set_insert")
          => LET hash == loc[p].route_hash
                 s    == shard_index(hash)
                 m    == entries[s]
             IN  (hash \in DOMAIN m /\ Cardinality(DOMAIN m) = MAX_ENTRIES_PER_SHARD)
                 => /\ DOMAIN entries'[s] = DOMAIN m
                    /\ entries'[s][hash].handler = loc[p].handler]_vars

=============================================================================
